---- MODULE Spec2Model ----
(***************************************************************************)
(* Model of the memory-lancedb auto-capture pipeline:                      *)
(*   SessionJournal (session-journal: appendMessages, commitDecisions,     *)
(*   enqueue, load, save, journalPath) and the agent_end capture handler   *)
(*   that drives it, with LLMDecisionMaker.evaluate between the two        *)
(*   journal calls.                                                        *)
(*                                                                         *)
(* Every `await` of the code is a step boundary: between two steps of one  *)
(* handler or journal operation any other handler or operation may move.   *)
(***************************************************************************)
EXTENDS Integers, Sequences, FiniteSets, TLC

\* ------------------------------------------------------------------ bounds
MaxEvents == 2        \* agent_end events delivered in one behaviour
MaxLogs == 1          \* successful tool calls of one evaluate call
MaxCalls == 3         \* journal calls made by direct callers of SessionJournal
MaxSessionCalls == 2  \* journal calls made by the callers of several sessions
MaxToolCalls == 5     \* tool calls the backend requests during one evaluate call
MaxGrow == 1          \* messages appended to the journal while evaluate runs
MaxCompletes == 2     \* complete() calls made on one adapter
MaxTicks == 2         \* clock ticks during one evaluate call
MaxKeyLen == 3        \* characters of a session key handed to journalPath

\* ------------------------------------------------------- program constants
MAX_TOOL_ITERATIONS == 5

\* --------------------------------------------------------------- alphabet
\* Strings whose characters matter are sequences of one-character strings.
SafeChars ==
  {"a","b","c","d","e","f","g","h","i","j","k","l","m","n","o","p","q","r","s","t",
   "u","v","w","x","y","z","A","B","C","D","E","F","G","H","I","J","K","L","M","N",
   "O","P","Q","R","S","T","U","V","W","X","Y","Z","0","1","2","3","4","5","6","7",
   "8","9","_","-"}

\* Session keys (ctx.sessionId ?? ctx.sessionKey): any string is accepted.
SessionKeys == {<<"s","1">>, <<"s",":">>, <<"s","_">>}

\* The session whose agent_end events the host delivers in Spec.
HostSessions == {<<"s","1">>}

\* The file name built without the replace: the key as it came.
journalPathUnsanitized(sessionKey) == sessionKey \o <<".","j","s","o","n">>

\* sessionKey.replace(/[^a-zA-Z0-9_-]/g, "_") + ".json" under sessionsDir
journalPath(sessionKey) ==
  [i \in 1..Len(sessionKey) |->
     IF sessionKey[i] \in SafeChars THEN sessionKey[i] ELSE "_"] \o <<".","j","s","o","n">>

Paths == {journalPath(k) : k \in SessionKeys}

\* this.sessionsDir = join(dbPath, "sessions"), as its path components.
sessionsDir == <<<<"d","b">>, <<"s","e","s","s","i","o","n","s">>>>

\* The characters node's path module takes as separators ("/" everywhere,
\* "\\" as well on win32).
Separators == {"/", "\\"}

\* The components of a path string: the runs of characters between separators.
RECURSIVE segments(_, _)
segments(chars, run) ==
  IF Len(chars) = 0 THEN <<run>>
  ELSE IF Head(chars) \in Separators
       THEN <<run>> \o segments(Tail(chars), <<>>)
       ELSE segments(Tail(chars), Append(run, Head(chars)))

\* path.normalize on components: "" and "." are dropped, ".." removes the
\* component before it (and stays when there is none).
RECURSIVE normalize(_, _)
normalize(parts, kept) ==
  IF Len(parts) = 0 THEN kept
  ELSE IF Head(parts) \in {<<>>, <<".">>}
       THEN normalize(Tail(parts), kept)
       ELSE IF Head(parts) = <<".", ".">>
            THEN normalize(Tail(parts),
                           IF Len(kept) > 0 /\ kept[Len(kept)] # <<".", ".">>
                           THEN SubSeq(kept, 1, Len(kept) - 1)
                           ELSE Append(kept, Head(parts)))
            ELSE normalize(Tail(parts), Append(kept, Head(parts)))

\* join(this.sessionsDir, name): the components of the normalized path.
join(dir, name) == normalize(dir \o segments(name, <<>>), <<>>)

\* dirname(filePath), as save calls it.
dirname(filePath) ==
  IF Len(filePath) = 0 THEN <<>> ELSE SubSeq(filePath, 1, Len(filePath) - 1)

\* ------------------------------------------------------------- data model
Roles == {"user", "assistant"}

RoleChars(role) ==
  IF role = "user" THEN <<"u","s","e","r">>
  ELSE <<"a","s","s","i","s","t","a","n","t">>

\* CleanMessage {role, text}; text is a sequence of characters.
userA == [role |-> "user", text |-> <<"a">>]
assistantA == [role |-> "assistant", text |-> <<"a">>]

\* `${m.role}:${m.text}`
dedupKey(m) == RoleChars(m.role) \o <<":">> \o m.text

\* The clean messages one event (or one appendMessages call) can carry: one
\* message, the same message twice, two different messages.
Batches == {<<userA>>, <<assistantA>>, <<userA, userA>>, <<userA, assistantA>>}

\* JournalData of a fresh session (load's fallback)
freshJournal == [processedIndex |-> 0, cleanContext |-> <<>>, memoryLogs |-> <<>>]

\* Variant: slice() without its argument, a copy of the whole array.
sliceWhole(s, start) == s

\* Array.prototype.slice(start) on a sequence
slice(s, start) ==
  LET n == Len(s)
      from == IF start < 0 THEN (IF n + start < 0 THEN 0 ELSE n + start)
              ELSE (IF start > n THEN n ELSE start)
  IN SubSeq(s, from + 1, n)

\* Variant: membership tested on object identity (cleanContext.includes(m)),
\* which no newly extracted message satisfies: nothing is filtered out.
freshOfByIdentity(journal, messages) == messages

\* messages.filter((m) => !existing.has(key(m))), existing built from cleanContext
freshOf(journal, messages) ==
  LET existing == {dedupKey(journal.cleanContext[i]) : i \in 1..Len(journal.cleanContext)}
  IN SelectSeq(messages, LAMBDA m : dedupKey(m) \notin existing)

\* Variant: cleanContext is assigned the fresh messages instead of extended.
pushFreshReplace(journal, fresh) == [journal EXCEPT !.cleanContext = fresh]

\* journal.cleanContext.push(...fresh)
pushFresh(journal, fresh) ==
  [journal EXCEPT !.cleanContext = journal.cleanContext \o fresh]

\* Variant: processedIndex is advanced by the argument instead of set to it.
applyCommitAdvanceBy(journal, logs, newProcessedIndex) ==
  [journal EXCEPT !.memoryLogs = journal.memoryLogs \o logs,
                  !.processedIndex = journal.processedIndex + newProcessedIndex]

\* Variant: memoryLogs is replaced by the new logs instead of extended.
applyCommitReplaceLogs(journal, logs, newProcessedIndex) ==
  [journal EXCEPT !.memoryLogs = logs,
                  !.processedIndex = newProcessedIndex]

\* journal.memoryLogs.push(...logs); journal.processedIndex = newProcessedIndex
applyCommit(journal, logs, newProcessedIndex) ==
  [journal EXCEPT !.memoryLogs = journal.memoryLogs \o logs,
                  !.processedIndex = newProcessedIndex]

\* ------------------------------------------------ LLMDecisionMaker data
\* A value of args.text / args.memoryId as the backend sends it.
ArgValues == {"undefined", "", "t", "m0"}

\* String(args.x ?? "")
argString(v) == IF v = "undefined" THEN "" ELSE v

\* name and args of the ToolCallRequests a backend reply can carry.
storeText == [name |-> "store_memory", args |-> [text |-> "t", memoryId |-> "undefined"]]
storeNoText == [name |-> "store_memory", args |-> [text |-> "undefined", memoryId |-> "undefined"]]
forgetId == [name |-> "forget_memory", args |-> [text |-> "undefined", memoryId |-> "m0"]]
forgetNoId == [name |-> "forget_memory", args |-> [text |-> "undefined", memoryId |-> ""]]
updateIdText == [name |-> "update_memory", args |-> [text |-> "t", memoryId |-> "m0"]]
updateNoText == [name |-> "update_memory", args |-> [text |-> "", memoryId |-> "m0"]]
unknownTool == [name |-> "recall_memory", args |-> [text |-> "t", memoryId |-> "m0"]]

\* response.toolCalls of one round: none, one call, or two calls.
ToolCallLists ==
  {<<>>, <<storeText>>, <<storeNoText>>, <<forgetId>>, <<forgetNoId>>,
   <<updateIdText>>, <<updateNoText>>, <<unknownTool>>,
   <<storeText, forgetId>>, <<unknownTool, updateIdText>>}

\* The id MemoryOps.store / MemoryOps.update resolve with.
newMemoryId == "m1"

\* Variant: every tool name reaches its MemoryOps method unvalidated.
executeToolThrowsNever(name, args) == FALSE

\* executeTool throws before any MemoryOps call: a required argument is
\* missing or empty, or the name is none of the three tools.
executeToolThrows(name, args) ==
  CASE name = "store_memory" -> argString(args.text) = ""
    [] name = "forget_memory" -> argString(args.memoryId) = ""
    [] name = "update_memory" ->
         argString(args.memoryId) = "" \/ argString(args.text) = ""
    [] OTHER -> TRUE

\* Variant: update_memory logs the id it was asked to replace.
executeToolRequestedId(name, args, deltaIndex, returned) ==
  [deltaIndex |-> deltaIndex,
   action |-> CASE name = "store_memory" -> "store"
                [] name = "forget_memory" -> "forget"
                [] OTHER -> "update",
   memoryId |-> IF name = "store_memory" THEN returned ELSE argString(args.memoryId),
   text |-> IF name = "forget_memory" THEN "" ELSE argString(args.text),
   timestamp |-> 0]

\* The MemoryLogEntry executeTool returns once its MemoryOps call resolved
\* with `returned`.
executeTool(name, args, deltaIndex, returned) ==
  CASE name = "store_memory" ->
         [deltaIndex |-> deltaIndex, action |-> "store", memoryId |-> returned,
          text |-> argString(args.text), timestamp |-> 0]
    [] name = "forget_memory" ->
         [deltaIndex |-> deltaIndex, action |-> "forget",
          memoryId |-> argString(args.memoryId), text |-> "", timestamp |-> 0]
    [] OTHER ->
         [deltaIndex |-> deltaIndex, action |-> "update", memoryId |-> returned,
          text |-> argString(args.text), timestamp |-> 0]

\* adapter.pushToolResult(toolCallId, content, isError): one transcript entry.
toolResult(toolCallId, isError) ==
  [kind |-> "result", ids |-> <<toolCallId>>, isError |-> isError]

\* messages.push(assistant reply) inside complete().
assistantReply(toolCalls) ==
  [kind |-> "reply", ids |-> [i \in 1..Len(toolCalls) |-> toolCalls[i].id],
   isError |-> FALSE]

\* done: toolCalls.length === 0 || the backend's turn-completion signal
adapterDone(toolCalls, stop) == Len(toolCalls) = 0 \/ stop

noResponse == [toolCalls |-> <<>>, done |-> FALSE]

\* ------------------------------------------------------------------ state
VARIABLES
  files,      \* canonical journal file per path: [st, data]
  cache,      \* SessionJournal.cache: <<>> (no entry) or <<JournalData>>
  ops,        \* per key, the promise chain: the operations not yet settled,
              \* behind the last settled ones (the chain tail keeps its value)
  handlers,   \* agent_end handler invocations
  started,    \* number of agent_end events delivered
  issued,     \* number of journal operations enqueued so far
  ref,        \* per key, the calls submitted so far applied one after another
  evaluation, \* one LLMDecisionMaker.evaluate call, await by await
  adapter,    \* one ChatAdapter object: its transcript, request by request
  tool,       \* one execute call of a registered memory tool, await by await
  config,     \* one memoryConfigSchema.parse call: its argument and outcome
  path,       \* one journalPath call: the key it was given and the path it built
  memory      \* one executeTool call and the MemoryOps call it makes on the table

vars == <<files, cache, ops, handlers, started, issued, ref, evaluation, adapter, tool, config, path, memory>>

Events == 1..MaxEvents

fileMissing == [st |-> "missing", data |-> freshJournal]
fileOf(data) == [st |-> "valid", data |-> data]

\* A journal written by an earlier run of the process.
storedJournal ==
  [processedIndex |-> 1, cleanContext |-> <<userA>>, memoryLogs |-> <<>>]

\* A file whose content JSON.parse rejects (data: what it was meant to hold).
fileCorrupt == [st |-> "corrupt", data |-> storedJournal]

\* Variant: the file's content is used without the try/catch fallback.
readJournalUnchecked(file) == file.data

\* JSON.parse(readFile(path)); any failure falls back to a fresh journal.
readJournal(file) == IF file.st = "valid" THEN file.data ELSE freshJournal

\* What one handler invocation has done so far, kept after it has ended: the
\* delta its evaluate call sent to the backend (seen), how evaluate ended
\* (outcome), and the log entries of the MemoryOps calls that resolved
\* (effects).
noTrace == [seen |-> <<>>, outcome |-> "none", effects |-> <<>>]

\* One invocation of the agent_end handler. failed names the awaited call
\* whose error reached the try block, warned that api.logger.warn reported it,
\* raised that the handler's own promise rejected to the host. While a tool
\* call is executed, call names the MemoryOps method awaited, deltaIndex is
\* the length handleToolCall read, and last tells that the loop ends after it.
idleHandler ==
  [pc |-> "idle", key |-> <<>>, res |-> "pending", err |-> 0, delta |-> <<>>,
   logs |-> <<>>, iter |-> 0, now |-> 0, failed |-> "none", warned |-> FALSE,
   raised |-> FALSE, call |-> "none", deltaIndex |-> 0, last |-> FALSE,
   trace |-> noTrace]
doneHandler == [idleHandler EXCEPT !.pc = "done"]

\* The handler has returned: what it did stays done.
returnedHandler(h) == [doneHandler EXCEPT !.trace = h.trace]

\* Variant: the error is logged and thrown again.
catchBlockRethrows(h, call) ==
  [doneHandler EXCEPT !.key = h.key, !.failed = call, !.warned = TRUE,
                      !.raised = TRUE, !.trace = h.trace]

\* catch (err) { api.logger.warn(`... LLM capture failed: ...`) }: the error
\* of the awaited call ends the capture, and the handler returns normally.
catchBlock(h, call) ==
  [doneHandler EXCEPT !.key = h.key, !.failed = call, !.warned = TRUE,
                      !.trace = h.trace]

\* evaluate(journal, delta) before it is called: its locals, the adapter's
\* transcript, the MemoryOps calls in flight, and the clock (Date.now()).
\* Counted on the side: complete() calls, tool calls requested, MemoryOps
\* calls made, tool calls whose executeTool threw (failures), MemoryOps calls
\* that resolved (successes), and whether a complete() call rejected.
idleEvaluation ==
  [pc |-> "idle", journal |-> freshJournal, delta |-> <<>>, adapter |-> FALSE,
   transcript |-> <<>>, iter |-> 0, completes |-> 0, response |-> noResponse,
   tc |-> 1, pending |-> {}, opsCalls |-> 0, logs |-> <<>>, now |-> 0,
   clock |-> 0, requested |-> 0, grown |-> 0, failures |-> 0, successes |-> 0,
   completeFailed |-> FALSE]

\* No adapter yet (createAdapter has not been called). replies keeps the
\* blocks of each reply that was pushed onto the transcript.
noReply == [choices |-> 0, blocks |-> <<>>, signal |-> ""]
idleAdapter ==
  [api |-> "", pc |-> "none", messages |-> <<>>, requests |-> <<>>,
   reply |-> noReply, response |-> noResponse, tc |-> 1, completes |-> 0,
   issuedIds |-> 0, replies |-> <<>>]

\* ------------------------------------------------ memoryConfigSchema.parse
DEFAULT_EMBEDDING_BASE_URL == "https://api.openai.com/v1"
DEFAULT_EMBEDDING_MODEL == "text-embedding-3-small"
DEFAULT_CHAT_BASE_URL == "https://api.openai.com/v1"
DEFAULT_CHAT_MODEL == "gpt-4o-mini"

EMBEDDING_DIMENSIONS ==
  [m \in {"text-embedding-3-small", "text-embedding-3-large",
          "text-embedding-ada-002"} |->
     IF m = "text-embedding-3-large" THEN 3072 ELSE 1536]

\* A property that the object does not have reads as "absent" (undefined).
\* A dimensions value: its typeof, whether Number.isFinite holds of it, and
\* twice its value (so that halves can be told from whole numbers).
absentDimensions == [type |-> "undefined", finite |-> FALSE, twice |-> 0]
numberOf(twice) == [type |-> "number", finite |-> TRUE, twice |-> twice]
DimensionValues ==
  {absentDimensions,
   [type |-> "string", finite |-> FALSE, twice |-> 3072],
   [type |-> "number", finite |-> FALSE, twice |-> 0]}
  \cup {numberOf(t) : t \in {-2, 0, 1, 2048, 2049, 3072, 3073, 6144}}

\* The embedding and chat sections parse can be handed (chat: none, or one).
EmbeddingSections ==
  [apiKey : {"absent", " ", "sk-embed"},
   model : {"absent", "text-embedding-3-small", "text-embedding-3-large",
            "my-custom-embedding-model"},
   baseUrl : {"absent"},
   dimensions : DimensionValues]
ChatSections ==
  [api : {"absent", "openai-completions", "anthropic-messages", "invalid-api"},
   apiKey : {"absent", "chat-key", "${CHAT_KEY}"},
   model : {"absent", "gpt-4o", " gpt-4o "},
   baseUrl : {"absent", "https://chat.example.com/v1"}]
ConfigValues ==
  [embedding : EmbeddingSections, chat : {<<>>} \cup {<<c>> : c \in ChatSections}]

\* Object.keys(value)
keysOf(section) == {k \in DOMAIN section : section[k] # "absent"}

\* String.prototype.trim on the strings above.
trim(v) == CASE v = " " -> "" [] v = " gpt-4o " -> "gpt-4o" [] OTHER -> v

\* resolveEnvVars: ${VAR} becomes process.env.VAR (CHAT_KEY is set).
resolveEnvVars(v) == IF v = "${CHAT_KEY}" THEN "env-chat-key" ELSE v

\* resolveString(raw, fallback)
resolveString(raw, fallback) ==
  IF raw # "absent" /\ trim(raw) # ""
  THEN LET resolved == resolveEnvVars(trim(raw))
       IN IF resolved # "" THEN resolved ELSE fallback
  ELSE fallback

\* The outcome of a call: a returned value, or an Error with its message (the
\* pieces of the template string, in order, numbers left out).
noChat == [model |-> "", apiKey |-> "", baseUrl |-> ""]
noEmbedding ==
  [provider |-> "", model |-> "", apiKey |-> "", baseUrl |-> "", dimensions |-> 0]
parseReturns(embedding, chat) ==
  [threw |-> FALSE, message |-> <<>>, embedding |-> embedding, chat |-> chat]
parseThrows(message) ==
  [threw |-> TRUE, message |-> message, embedding |-> noEmbedding, chat |-> <<>>]

\* assertAllowedKeys(value, allowed, label): the unknown keys, if any.
assertAllowedKeys(section, allowed) == keysOf(section) \ allowed

\* Variant: provided dimensions are taken as they are for every model.
resolveDimensionsUnchecked(model, dimensions) ==
  IF dimensions.type = "undefined"
  THEN IF model \in DOMAIN EMBEDDING_DIMENSIONS
       THEN [message |-> <<>>, dimensions |-> EMBEDDING_DIMENSIONS[model]]
       ELSE [message |-> <<"embedding.dimensions is required", model>>,
             dimensions |-> 0]
  ELSE [message |-> <<>>, dimensions |-> dimensions.twice \div 2]

\* resolveEmbeddingConfig, the dimensions: validated if provided, rounded
\* down, checked against the model's known size, defaulted to it.
resolveDimensions(model, dimensions) ==
  IF dimensions.type # "undefined" /\
     (dimensions.type # "number" \/ ~dimensions.finite \/ dimensions.twice <= 0)
  THEN [message |-> <<"embedding.dimensions must be a positive number">>,
        dimensions |-> 0]
  ELSE LET provided == dimensions.type = "number"
           providedDimensions == dimensions.twice \div 2
           known == model \in DOMAIN EMBEDDING_DIMENSIONS
       IN IF provided /\ known /\ providedDimensions # EMBEDDING_DIMENSIONS[model]
          THEN [message |-> <<"embedding.dimensions (",
                              ") does not match expected (", ") for model ",
                              model>>,
                dimensions |-> 0]
          ELSE LET resolved == IF provided THEN providedDimensions
                               ELSE IF known THEN EMBEDDING_DIMENSIONS[model]
                               ELSE 0
               IN IF resolved = 0
                  THEN [message |-> <<"embedding.dimensions is required",
                                      " for unknown model: ", model>>,
                        dimensions |-> 0]
                  ELSE [message |-> <<>>, dimensions |-> resolved]

\* resolveEmbeddingConfig(embedding)
resolveEmbeddingConfig(embedding) ==
  IF embedding.apiKey = "absent" \/ trim(embedding.apiKey) = ""
  THEN parseThrows(<<"embedding.apiKey is required">>)
  ELSE LET model == resolveString(embedding.model, DEFAULT_EMBEDDING_MODEL)
           baseUrl == resolveString(embedding.baseUrl, DEFAULT_EMBEDDING_BASE_URL)
           d == resolveDimensions(model, embedding.dimensions)
       IN IF d.message # <<>>
          THEN parseThrows(d.message)
          ELSE parseReturns([provider |-> "openai", model |-> model,
                        apiKey |-> resolveEnvVars(trim(embedding.apiKey)),
                        baseUrl |-> baseUrl, dimensions |-> d.dimensions], <<>>)

\* resolveChatConfig(chat): a ChatConfig has model, apiKey and baseUrl.
resolveChatConfig(chat) ==
  IF chat.apiKey = "absent" \/ trim(chat.apiKey) = ""
  THEN parseThrows(<<"chat.apiKey is required">>)
  ELSE parseReturns(noEmbedding,
               <<[model |-> resolveString(chat.model, DEFAULT_CHAT_MODEL),
                  apiKey |-> resolveEnvVars(trim(chat.apiKey)),
                  baseUrl |-> resolveString(chat.baseUrl, DEFAULT_CHAT_BASE_URL)]>>)

\* memoryConfigSchema.parse(value): the chat section is checked and resolved
\* first, then the embedding section.
parseValue(value) ==
  LET unknown == IF value.chat = <<>> THEN {}
                 ELSE assertAllowedKeys(value.chat[1], {"apiKey", "model", "baseUrl"})
      chat == IF value.chat = <<>> THEN parseReturns(noEmbedding, <<>>)
              ELSE resolveChatConfig(value.chat[1])
      embedding == resolveEmbeddingConfig(value.embedding)
  IN IF unknown # {}
     THEN parseThrows(<<"chat config has unknown keys: ", CHOOSE k \in unknown : TRUE>>)
     ELSE IF chat.threw THEN chat
     ELSE IF embedding.threw THEN embedding
     ELSE parseReturns(embedding.embedding, chat.chat)

\* parse has not been called.
idleConfig ==
  [pc |-> "idle",
   value |-> [embedding |-> [apiKey |-> "absent", model |-> "absent",
                             baseUrl |-> "absent", dimensions |-> absentDimensions],
              chat |-> <<>>],
   result |-> parseReturns(noEmbedding, <<>>)]

\* MEMORY_CATEGORIES
MEMORY_CATEGORIES == {"preference", "fact", "decision", "entity", "other"}

\* The memory table before the tool call: one memory, stored by an earlier run.
memoryTable ==
  {[id |-> "3f2a9c1e-5b7d-4e8a-9c0b-1d2e3f4a5b6c", text |-> "likes tea",
    category |-> "preference"]}

\* executeTool has not been called. method and passed are the MemoryOps method
\* executeTool invokes and the arguments it invokes it with.
noArgs == [text |-> "undefined", memoryId |-> "undefined", category |-> "undefined"]
idleMemory ==
  [pc |-> "idle", name |-> "", args |-> noArgs, method |-> "none",
   passed |-> [text |-> "", memoryId |-> "", category |-> ""],
   error |-> "", table |-> memoryTable]

\* journalPath has not been called.
idlePath == [pc |-> "idle", key |-> <<>>, file |-> <<>>]

\* No memory tool has been called.
idleTool ==
  [name |-> "", params |-> [query |-> "undefined", text |-> "undefined",
                            memoryId |-> "undefined"],
   pc |-> "idle", vector |-> "", id |-> "", response |-> "", table |-> {}]

Init ==
  /\ adapter = idleAdapter
  /\ tool = idleTool
  /\ config = idleConfig
  /\ path = idlePath
  /\ memory = idleMemory
  /\ files = [p \in Paths |-> fileMissing]
  /\ cache = [k \in SessionKeys |-> <<>>]
  /\ ops = [k \in SessionKeys |-> <<>>]
  /\ handlers = [e \in Events |-> idleHandler]
  /\ started = 0
  /\ issued = 0
  /\ ref = [k \in SessionKeys |-> freshJournal]
  /\ evaluation = idleEvaluation

\* ------------------------------------------------ sequential reference
\* What one call does to a JournalData when nothing else runs.
callEffect(journal, kind, messages, logs, newProcessedIndex) ==
  IF kind = "append"
  THEN [journal EXCEPT !.cleanContext =
          journal.cleanContext \o
          SelectSeq(messages,
                    LAMBDA m : \A j \in 1..Len(journal.cleanContext) :
                                 journal.cleanContext[j] # m)]
  ELSE [journal EXCEPT !.memoryLogs = journal.memoryLogs \o logs,
                       !.processedIndex = newProcessedIndex]

\* ------------------------------------------------ SessionJournal.enqueue
noTmp == [st |-> "none", data |-> freshJournal]
partialTmp == [st |-> "partial", data |-> freshJournal]

Settled == {"fulfilled", "rejected"}
Saving == {"write", "writing", "rename"}

\* An operation as enqueue sees it: fn plus the promise `next` made for it.
\* ev is the agent_end event whose handler awaits it (0: another caller).
newOp(id, kind, e, messages, logs, newProcessedIndex) ==
  [id |-> id, kind |-> kind, ev |-> e, messages |-> messages, logs |-> logs,
   newProcessedIndex |-> newProcessedIndex, st |-> "queued",
   err |-> 0, fresh |-> <<>>, tmp |-> noTmp, delta |-> <<>>]

\* const prev = this.queues.get(sessionKey) ?? Promise.resolve();
\* const next = prev.then(fn, fn); this.queues.set(sessionKey, next.catch(() => {}))
\* The new operation goes behind the chain tail. (ref records the call.)
enqueue(k, kind, e, messages, logs, newProcessedIndex) ==
  /\ ops' = [ops EXCEPT ![k] =
              Append(@, newOp(issued + 1, kind, e, messages, logs, newProcessedIndex))]
  /\ issued' = issued + 1
  /\ ref' = [ref EXCEPT ![k] = callEffect(@, kind, messages, logs, newProcessedIndex)]

\* Variant: fn is called at once instead of being chained on prev.
prevSettledUnchained(k, i) == TRUE

\* The reaction registered on prev runs only once prev has settled.
prevSettled(k, i) == IF i = 1 THEN TRUE ELSE ops[k][i - 1].st \in Settled

\* Variant: the chain is prev.then(fn) on the raw promise of the predecessor,
\* so a rejection skips fn and is passed on.
thenReactionNoCatch(prevSt) == IF prevSt = "rejected" THEN "reject" ELSE "run"

\* prev is `next.catch(() => {})` of the predecessor, and the reaction is
\* then(fn, fn): whatever the predecessor's outcome, fn runs.
thenReaction(prevSt) ==
  LET chained == IF prevSt = "rejected" THEN "fulfilled" ELSE prevSt
  IN IF chained = "fulfilled" THEN "run" ELSE "run"

\* Operation i of key k continues as rec.
setOp(k, i, rec) == ops' = [ops EXCEPT ![k][i] = rec]

\* Operation i of key k settles as rec: the promise returned to the caller
\* settles with it, which for an agent_end handler is the value (or the error)
\* its await will resume with.
settle(k, i, rec) ==
  /\ setOp(k, i, rec)
  /\ IF rec.ev = 0
     THEN UNCHANGED handlers
     ELSE handlers' = [handlers EXCEPT ![rec.ev].res = rec.st,
                                       ![rec.ev].err = rec.err,
                                       ![rec.ev].delta = rec.delta]

\* --------------------------------------------------- SessionJournal.load
\* fn starts (the reaction of prev.then) and awaits this.load(sessionKey).
\* Promises settled before the predecessor are no longer referenced.
load(k, i) ==
  /\ i \in DOMAIN ops[k]
  /\ ops[k][i].st = "queued"
  /\ prevSettled(k, i)
  /\ LET op == ops[k][i]
         prevSt == IF i = 1 THEN "fulfilled" ELSE ops[k][i - 1].st
         drop == IF i > 2 /\ \A j \in 1..(i - 2) : ops[k][j].st \in Settled
                 THEN i - 2 ELSE 0
         kept(rec) == SubSeq([ops[k] EXCEPT ![i] = rec], drop + 1, Len(ops[k]))
     IN IF thenReaction(prevSt) = "run"
        THEN /\ ops' = [ops EXCEPT ![k] = kept([op EXCEPT !.st = "loaded"])]
             /\ UNCHANGED handlers
             /\ IF cache[k] # <<>>
                THEN UNCHANGED cache
                ELSE cache' = [cache EXCEPT ![k] = <<readJournal(files[journalPath(k)])>>]
        ELSE /\ settle(k, i, [op EXCEPT !.st = "rejected", !.err = ops[k][i - 1].err])
             /\ UNCHANGED cache
  /\ UNCHANGED <<files, started, issued, ref, evaluation, adapter, tool, config, path, memory>>

\* -------------------------------------- SessionJournal.appendMessages (fn)
appendMessagesBody(k, i) ==
  /\ i \in DOMAIN ops[k]
  /\ ops[k][i].st = "loaded"
  /\ ops[k][i].kind = "append"
  /\ LET op == ops[k][i]
         journal == cache[k][1]
         fresh == freshOf(journal, op.messages)
     IN IF Len(fresh) > 0
        THEN \* push, then save(): this.cache.set, and the first await of save
             /\ cache' = [cache EXCEPT ![k] = <<pushFresh(journal, fresh)>>]
             /\ setOp(k, i, [op EXCEPT !.st = "write", !.fresh = fresh])
             /\ UNCHANGED handlers
        ELSE \* nothing fresh: no save, the delta is returned at once
             /\ UNCHANGED cache
             /\ settle(k, i, [op EXCEPT !.st = "fulfilled",
                                        !.delta = slice(journal.cleanContext,
                                                        journal.processedIndex)])
  /\ UNCHANGED <<files, started, issued, ref, evaluation, adapter, tool, config, path, memory>>

\* ------------------------------------- SessionJournal.commitDecisions (fn)
commitDecisionsBody(k, i) ==
  /\ i \in DOMAIN ops[k]
  /\ ops[k][i].st = "loaded"
  /\ ops[k][i].kind = "commit"
  /\ LET op == ops[k][i]
         journal == cache[k][1]
     IN /\ cache' = [cache EXCEPT ![k] =
                       <<applyCommit(journal, op.logs, op.newProcessedIndex)>>]
        /\ setOp(k, i, [op EXCEPT !.st = "write"])
  /\ UNCHANGED <<files, handlers, started, issued, ref, evaluation, adapter, tool, config, path, memory>>

\* --------------------------------------------------- SessionJournal.save
\* Variant: the document is written straight to the canonical path.
saveWriteBeginInPlace(k, i) ==
  /\ i \in DOMAIN ops[k]
  /\ ops[k][i].st = "write"
  /\ setOp(k, i, [ops[k][i] EXCEPT !.st = "writing", !.tmp = partialTmp])
  /\ files' = [files EXCEPT ![journalPath(k)] = partialTmp]
  /\ UNCHANGED <<cache, handlers, started, issued, ref, evaluation, adapter, tool, config, path, memory>>

\* mkdir (a no-op on the existing sessions directory) and the start of
\* fs.writeFile(tmpPath, ...): the temp file exists with part of the document.
saveWriteBegin(k, i) ==
  /\ i \in DOMAIN ops[k]
  /\ ops[k][i].st = "write"
  /\ setOp(k, i, [ops[k][i] EXCEPT !.st = "writing", !.tmp = partialTmp])
  /\ UNCHANGED <<files, cache, handlers, started, issued, ref, evaluation, adapter, tool, config, path, memory>>

\* fs.writeFile(tmpPath, JSON.stringify(data, null, 2)) completes.
saveWriteEnd(k, i) ==
  /\ i \in DOMAIN ops[k]
  /\ ops[k][i].st = "writing"
  /\ setOp(k, i, [ops[k][i] EXCEPT !.st = "rename", !.tmp = fileOf(cache[k][1])])
  /\ UNCHANGED <<files, cache, handlers, started, issued, ref, evaluation, adapter, tool, config, path, memory>>

\* mkdir or writeFile throws: save rejects, and so does the operation.
saveWriteFail(k, i) ==
  /\ i \in DOMAIN ops[k]
  /\ ops[k][i].st \in {"write", "writing"}
  /\ settle(k, i, [ops[k][i] EXCEPT !.st = "rejected", !.err = ops[k][i].id])
  /\ UNCHANGED <<files, cache, started, issued, ref, evaluation, adapter, tool, config, path, memory>>

\* fs.rename(tmpPath, filePath), then fn returns (appendMessages: the delta).
saveRename(k, i) ==
  /\ i \in DOMAIN ops[k]
  /\ ops[k][i].st = "rename"
  /\ LET op == ops[k][i]
         journal == cache[k][1]
     IN /\ files' = [files EXCEPT ![journalPath(k)] = op.tmp]
        /\ settle(k, i, [op EXCEPT
                           !.st = "fulfilled", !.tmp = noTmp,
                           !.delta = IF op.kind = "append"
                                     THEN slice(journal.cleanContext,
                                                journal.processedIndex)
                                     ELSE <<>>])
  /\ UNCHANGED <<cache, started, issued, ref, evaluation, adapter, tool, config, path, memory>>

\* fs.rename throws: the temp file stays, the canonical file is untouched.
saveRenameFail(k, i) ==
  /\ i \in DOMAIN ops[k]
  /\ ops[k][i].st = "rename"
  /\ settle(k, i, [ops[k][i] EXCEPT !.st = "rejected", !.err = ops[k][i].id])
  /\ UNCHANGED <<files, cache, started, issued, ref, evaluation, adapter, tool, config, path, memory>>

\* -------------------------------------------- LLMDecisionMaker.evaluate
LogActions == {"store"}

\* The MemoryLogEntry executeTool returns, with handleToolCall's timestamp.
logEntry(deltaIndex, action, now) ==
  [deltaIndex |-> deltaIndex, action |-> action, memoryId |-> "m1",
   text |-> IF action = "forget" THEN <<>> ELSE <<"a">>, timestamp |-> now]

\* ------------------------------------------------- the agent_end handler
\* Date.now(): time is counted in agent_end events delivered so far.
DateNow == started

setHandler(e, rec) == handlers' = [handlers EXCEPT ![e] = rec]

\* journalData in the handler is the cached object itself (load returns the
\* cached reference), so the handler always sees the live journal.
journalData(e) == cache[handlers[e].key][1]

\* An agent_end event arrives: the early returns, or appendMessages is called.
\* key <<>> stands for a context with neither sessionId nor sessionKey.
agent_end(e) ==
  /\ e = started + 1
  /\ e <= MaxEvents
  /\ handlers[e].pc = "idle"
  /\ started' = e
  /\ \E success \in BOOLEAN, k \in HostSessions \cup {<<>>},
        cleanMsgs \in Batches \cup {<<>>} :
       IF ~success \/ k = <<>> \/ Len(cleanMsgs) = 0
       THEN /\ setHandler(e, doneHandler)
            /\ UNCHANGED <<ops, issued, ref>>
       ELSE /\ enqueue(k, "append", e, cleanMsgs, <<>>, 0)
            /\ setHandler(e, [idleHandler EXCEPT !.pc = "appending", !.key = k])
  /\ UNCHANGED <<files, cache, evaluation, adapter, tool, config, path, memory>>

\* await journal.appendMessages(...) resumes: a rejection goes to the catch
\* block; an empty delta returns; otherwise evaluate starts (now = Date.now()).
appendMessagesSettled(e) ==
  /\ handlers[e].pc = "appending"
  /\ handlers[e].res # "pending"
  /\ LET h == handlers[e]
     IN IF h.res = "rejected"
        THEN setHandler(e, catchBlock(h, "appendMessages"))
        ELSE IF Len(h.delta) = 0
        THEN setHandler(e, returnedHandler(h))
        ELSE setHandler(e, [h EXCEPT !.pc = "evaluating", !.res = "pending",
                                     !.now = DateNow])
  /\ UNCHANGED <<files, cache, ops, started, issued, ref, evaluation, adapter, tool, config, path, memory>>

\* The tools the model can call with effect: store_memory and update_memory.
ToolActions == {"store", "update"}

\* The loop of evaluate goes on (next round) or ends (evaluate returns logs).
loopGoesOn(h, logs, last) ==
  [h EXCEPT !.logs = logs, !.call = "none", !.deltaIndex = 0, !.last = FALSE,
            !.iter = IF last THEN 0 ELSE h.iter + 1,
            !.pc = IF last THEN "evaluated" ELSE "evaluating",
            !.trace.outcome = IF last THEN "returned" ELSE @]

\* One round of evaluate up to its tool call: complete() throws (the
\* handler's catch block ends the capture), or answers with toolCalls and a
\* done flag; with a tool call, handleToolCall reads
\* journal.cleanContext.length and executeTool awaits the MemoryOps method;
\* the loop ends on no tool calls, on done, or at MAX_TOOL_ITERATIONS.
evaluateRound(e) ==
  /\ handlers[e].pc = "evaluating"
  /\ handlers[e].iter < MAX_TOOL_ITERATIONS
  /\ LET h == [handlers[e] EXCEPT !.trace.seen = handlers[e].delta] IN
     \E throws \in BOOLEAN, toolCalls \in 0..1, done \in BOOLEAN,
        action \in ToolActions :
       /\ toolCalls = 0 => done /\ action = "store"
       /\ throws => toolCalls = 0
       /\ IF throws
          THEN setHandler(e, catchBlock([h EXCEPT !.trace.outcome = "threw"],
                                       "evaluate"))
          ELSE LET last == toolCalls = 0 \/ done \/ h.iter + 1 = MAX_TOOL_ITERATIONS
               IN IF toolCalls = 0
                  THEN setHandler(e, loopGoesOn(h, h.logs, last))
                  ELSE setHandler(e, [h EXCEPT
                         !.pc = "executing", !.call = action, !.last = last,
                         !.deltaIndex = Len(journalData(e).cleanContext)])
  /\ UNCHANGED <<files, cache, ops, started, issued, ref, evaluation, adapter, tool, config, path, memory>>

\* The MemoryOps method awaited by executeTool settles: resolved, the log
\* entry is pushed (with the deltaIndex and timestamp handleToolCall was
\* given); rejected, handleToolCall's catch pushes the error to the model.
memoryOpSettled(e) ==
  /\ handlers[e].pc = "executing"
  /\ LET h == handlers[e] IN
     \E ok \in BOOLEAN :
       /\ ok => Len(h.logs) < MaxLogs
       /\ LET entry == logEntry(h.deltaIndex, h.call, h.now)
          IN setHandler(e, IF ok
                           THEN loopGoesOn([h EXCEPT !.trace.effects = Append(@, entry)],
                                           Append(h.logs, entry), h.last)
                           ELSE loopGoesOn(h, h.logs, h.last))
  /\ UNCHANGED <<files, cache, ops, started, issued, ref, evaluation, adapter, tool, config, path, memory>>

\* await evaluate(...) resumes: commitDecisions(sessionKey, logs,
\* journalData.cleanContext.length), the length read at the call.
commitDecisionsCall(e) ==
  /\ handlers[e].pc = "evaluated"
  /\ LET h == handlers[e]
     IN /\ enqueue(h.key, "commit", e, <<>>, h.logs, Len(journalData(e).cleanContext))
        /\ setHandler(e, [idleHandler EXCEPT !.pc = "committing", !.key = h.key,
                                             !.trace = h.trace])
  /\ UNCHANGED <<files, cache, started, evaluation, adapter, tool, config, path, memory>>

\* await journal.commitDecisions(...) resumes (fulfilled, or caught): the end.
commitDecisionsSettled(e) ==
  /\ handlers[e].pc = "committing"
  /\ handlers[e].res # "pending"
  /\ setHandler(e, IF handlers[e].res = "rejected"
                   THEN catchBlock(handlers[e], "commitDecisions")
                   ELSE returnedHandler(handlers[e]))
  /\ UNCHANGED <<files, cache, ops, started, issued, ref, evaluation, adapter, tool, config, path, memory>>

\* ------------------------------------------- direct callers of the journal
\* Some caller calls appendMessages(k, messages) for a session in keys
\* (at most `calls` journal calls are made).
appendMessages(keys, calls) ==
  /\ issued < calls
  /\ \E k \in keys, messages \in Batches \cup {<<>>} :
       enqueue(k, "append", 0, messages, <<>>, 0)
  /\ UNCHANGED <<files, cache, handlers, started, evaluation, adapter, tool, config, path, memory>>

\* Some caller calls commitDecisions(k, logs, newProcessedIndex) with an index
\* into the journal it holds (none yet: 0).
commitDecisions(keys, calls) ==
  /\ issued < calls
  /\ \E k \in keys :
       LET len == IF cache[k] = <<>> THEN 0 ELSE Len(cache[k][1].cleanContext)
       IN \E newProcessedIndex \in 0..len, n \in 0..1, action \in LogActions :
            enqueue(k, "commit", 0, <<>>,
                    IF n = 0 THEN <<>> ELSE <<logEntry(len, action, DateNow)>>,
                    newProcessedIndex)
  /\ UNCHANGED <<files, cache, handlers, started, evaluation, adapter, tool, config, path, memory>>

callAppendMessages == appendMessages(HostSessions, MaxCalls)
callCommitDecisions == commitDecisions(HostSessions, MaxCalls)

\* -------------------------------- LLMDecisionMaker.evaluate, await by await
\* The journals evaluate is handed, with delta = cleanContext[processedIndex:]
\* as appendMessages returned it (empty when everything is processed).
userB == [role |-> "user", text |-> <<"b">>]
EvaluateJournals ==
  {[processedIndex |-> n, cleanContext |-> <<userA, assistantA>>, memoryLogs |-> <<>>] :
     n \in 0..2}

journalVars == <<files, cache, ops, handlers, started, issued, ref>>

\* Variant: evaluate does not look at the delta's length.
emptyDeltaIgnored(delta) == FALSE

\* if (delta.length === 0) return { logs: [] }
emptyDelta(delta) == Len(delta) = 0

\* Variant: for (;;) without the iteration cap.
loopContinuesAlways(iter) == TRUE

\* for (let iter = 0; iter < MAX_TOOL_ITERATIONS; iter++)
loopContinues(iter) == iter < MAX_TOOL_ITERATIONS

\* Variant: the loop ends only on a response without tool calls.
lastRoundWithoutCalls(response) == Len(response.toolCalls) = 0

\* if (response.toolCalls.length === 0 || response.done) { ...; break; }
lastRound(response) == Len(response.toolCalls) = 0 \/ response.done

\* Variant: handleToolCall is called without await.
awaitedNever(ev) == TRUE

\* `await this.handleToolCall(...)`: the loop goes on only once the call in
\* flight has settled.
awaited(ev) == ev.pending = {}

\* Variant: a rejection of complete() is swallowed and ends the loop.
completeThrowsCaught(ev) == [ev EXCEPT !.pc = "returned"]

\* `await adapter.complete()` rejects: nothing in evaluate catches it.
completeThrows(ev) == [ev EXCEPT !.pc = "thrown"]

\* Variant: the catch block returns a log entry for the failed call.
handleToolCallLogsFailure(ev, call, deltaIndex, resolved, returned) ==
  [ev EXCEPT
     !.logs = Append(@, [executeTool(call.name, call.args, deltaIndex, returned)
                           EXCEPT !.timestamp = ev.now]),
     !.transcript = Append(@, toolResult(call.id, ~resolved))]

\* Variant: the failure is pushed like a success and the log is dropped.
handleToolCallDropsLog(ev, call, deltaIndex, resolved, returned) ==
  [ev EXCEPT !.transcript = Append(@, toolResult(call.id, FALSE))]

\* Variant: the entry is stamped with the time of its own execution.
handleToolCallStampsClock(ev, call, deltaIndex, resolved, returned) ==
  IF resolved
  THEN [ev EXCEPT
          !.logs = Append(@, [executeTool(call.name, call.args, deltaIndex, returned)
                                EXCEPT !.timestamp = ev.clock]),
          !.transcript = Append(@, toolResult(call.id, FALSE))]
  ELSE [ev EXCEPT !.transcript = Append(@, toolResult(call.id, TRUE))]

\* handleToolCall once executeTool has resolved (with the id `returned`) or
\* thrown: log.timestamp = now, pushToolResult(tc.id, text, false), return log;
\* or in the catch block pushToolResult(tc.id, text, true), return null.
\* evaluate pushes the returned log onto logs.
handleToolCall(ev, call, deltaIndex, resolved, returned) ==
  IF resolved
  THEN [ev EXCEPT
          !.logs = Append(@, [executeTool(call.name, call.args, deltaIndex, returned)
                                EXCEPT !.timestamp = ev.now]),
          !.transcript = Append(@, toolResult(call.id, FALSE))]
  ELSE [ev EXCEPT !.transcript = Append(@, toolResult(call.id, TRUE))]

\* Variant: handleToolCall is handed the length of the delta.
deltaIndexOfDelta(ev) == Len(ev.delta)

\* this.handleToolCall(tc, journal.cleanContext.length, now, adapter): the
\* length is read from the journal object when the call is made.
deltaIndexArgument(ev) == Len(ev.journal.cleanContext)

\* evaluate(journal, delta) is called: the early return, or the prompt, logs,
\* now = Date.now() and the adapter.
evaluate ==
  /\ evaluation.pc = "idle"
  /\ evaluation' =
       IF emptyDelta(evaluation.delta)
       THEN [evaluation EXCEPT !.pc = "returned"]
       ELSE [evaluation EXCEPT !.adapter = TRUE, !.now = evaluation.clock,
                               !.pc = "round"]
  /\ UNCHANGED <<journalVars, adapter, tool, config, path, memory>>

\* The head of the for loop: adapter.complete() is called, or the loop is over
\* and { logs } is returned.
loopHead ==
  /\ evaluation.pc = "round"
  /\ evaluation' =
       IF loopContinues(evaluation.iter)
       THEN [evaluation EXCEPT !.pc = "complete", !.completes = @ + 1]
       ELSE [evaluation EXCEPT !.pc = "returned"]
  /\ UNCHANGED <<journalVars, adapter, tool, config, path, memory>>

\* `await adapter.complete()` settles: it rejects (transport failure, reply
\* that does not parse), or the reply is pushed onto the transcript and its
\* tool calls and done flag are returned. Tool call ids are unique.
completeSettles ==
  /\ evaluation.pc = "complete"
  /\ \E throws \in BOOLEAN, toolCalls \in ToolCallLists, stop \in BOOLEAN :
       /\ evaluation.requested + Len(toolCalls) <= MaxToolCalls
       /\ throws => (toolCalls = <<>> /\ ~stop)
       /\ LET calls == [i \in 1..Len(toolCalls) |->
                         [id |-> evaluation.requested + i,
                          name |-> toolCalls[i].name, args |-> toolCalls[i].args]]
          IN evaluation' =
               IF throws
               THEN [completeThrows(evaluation) EXCEPT !.completeFailed = TRUE]
               ELSE [evaluation EXCEPT
                       !.transcript = Append(@, assistantReply(calls)),
                       !.response = [toolCalls |-> calls,
                                     done |-> adapterDone(calls, stop)],
                       !.tc = 1,
                       !.requested = @ + Len(calls),
                       !.pc = "tools"]
  /\ UNCHANGED <<journalVars, adapter, tool, config, path, memory>>

\* The next tool call of the response is handled: deltaIndex is
\* journal.cleanContext.length as read now; executeTool throws on its
\* arguments or its name, or calls its MemoryOps method and awaits it.
toolCallBegin ==
  /\ evaluation.pc = "tools"
  /\ evaluation.tc <= Len(evaluation.response.toolCalls)
  /\ awaited(evaluation)
  /\ LET call == evaluation.response.toolCalls[evaluation.tc]
         deltaIndex == deltaIndexArgument(evaluation)
     IN evaluation' =
          IF executeToolThrows(call.name, call.args)
          THEN [handleToolCall(evaluation, call, deltaIndex, FALSE, "")
                  EXCEPT !.tc = @ + 1, !.failures = @ + 1]
          ELSE [evaluation EXCEPT
                  !.pending = @ \cup {[call |-> call, deltaIndex |-> deltaIndex]},
                  !.opsCalls = @ + 1,
                  !.tc = @ + 1]
  /\ UNCHANGED <<journalVars, adapter, tool, config, path, memory>>

\* The MemoryOps call in flight resolves or rejects.
toolCallSettles ==
  /\ evaluation.pc = "tools"
  /\ \E p \in evaluation.pending, resolved \in BOOLEAN :
       evaluation' =
         [handleToolCall(evaluation, p.call, p.deltaIndex, resolved, newMemoryId)
            EXCEPT !.pending = @ \ {p},
                   !.successes = IF resolved THEN @ + 1 ELSE @,
                   !.failures = IF resolved THEN @ ELSE @ + 1]
  /\ UNCHANGED <<journalVars, adapter, tool, config, path, memory>>

\* The for loop over response.toolCalls is over: break, or the next round
\* (response is a local of the loop body).
roundEnd ==
  /\ evaluation.pc = "tools"
  /\ evaluation.tc > Len(evaluation.response.toolCalls)
  /\ awaited(evaluation)
  /\ evaluation' =
       IF lastRound(evaluation.response)
       THEN [evaluation EXCEPT !.response = noResponse, !.tc = 1,
                               !.pc = "returned"]
       ELSE [evaluation EXCEPT !.response = noResponse, !.tc = 1,
                               !.iter = @ + 1, !.pc = "round"]
  /\ UNCHANGED <<journalVars, adapter, tool, config, path, memory>>

\* While evaluate awaits, an appendMessages of another agent_end event pushes
\* a message onto the journal object evaluate holds (the cached object).
journalGrows ==
  /\ evaluation.pc = "complete" \/ evaluation.pending # {}
  /\ evaluation.grown < MaxGrow
  /\ evaluation' = [evaluation EXCEPT
                      !.journal = pushFresh(@, <<userB>>), !.grown = @ + 1]
  /\ UNCHANGED <<journalVars, adapter, tool, config, path, memory>>

\* Date.now() moves on: before evaluate is called, and while it awaits the
\* backend or a MemoryOps call.
clockTick ==
  /\ evaluation.pc \in {"idle", "complete"} \/ evaluation.pending # {}
  /\ evaluation.clock < MaxTicks
  /\ evaluation' = [evaluation EXCEPT !.clock = @ + 1]
  /\ UNCHANGED <<journalVars, adapter, tool, config, path, memory>>

\* A step of evaluate itself, and of what it awaits.
evaluateStep ==
  \/ evaluate
  \/ loopHead
  \/ completeSettles
  \/ toolCallBegin
  \/ toolCallSettles
  \/ roundEnd

\* ------------------------------------------------ the two ChatAdapters
ChatApis == {"openai-completions", "anthropic-messages"}

\* What a backend can answer. OpenAI: choices is response.choices.length,
\* blocks the type of each entry of choices[0].message.tool_calls, signal its
\* finish_reason. Anthropic: blocks is the type of each block of
\* response.content, signal the stop_reason.
openaiReplies ==
  {[choices |-> n, blocks |-> b, signal |-> f] :
     n \in {1}, b \in {<<>>, <<"function">>, <<"custom">>,
                       <<"function", "function">>, <<"custom", "function">>},
     f \in {"stop", "tool_calls", "length"}}
  \cup {[choices |-> 0, blocks |-> <<>>, signal |-> "stop"]}
anthropicReplies ==
  {[choices |-> 1, blocks |-> b, signal |-> f] :
     b \in {<<>>, <<"text">>, <<"tool_use">>, <<"tool_use", "tool_use">>,
            <<"text", "tool_use">>},
     f \in {"end_turn", "tool_use", "max_tokens"}}
backendReplies(api) ==
  IF api = "openai-completions" THEN openaiReplies ELSE anthropicReplies

\* The constructor's this.messages: system and user prompt, or the user
\* prompt alone (the system prompt travels outside the messages).
initialMessages(api) ==
  IF api = "openai-completions"
  THEN <<[kind |-> "system", ids |-> <<>>, isError |-> FALSE],
         [kind |-> "user", ids |-> <<>>, isError |-> FALSE]>>
  ELSE <<[kind |-> "user", ids |-> <<>>, isError |-> FALSE]>>

\* The blocks of a reply with the ids the backend gave them (unique, here
\* numbered on from `from`).
replyBlocks(reply, from) ==
  [i \in 1..Len(reply.blocks) |-> [type |-> reply.blocks[i], id |-> from + i]]

\* The ToolCallRequests complete() parses out of the reply: tool_calls of
\* type "function", or content blocks of type "tool_use".
parsedToolCalls(api, blocks) ==
  LET wanted == IF api = "openai-completions" THEN "function" ELSE "tool_use"
      calls == SelectSeq(blocks, LAMBDA b : b.type = wanted)
  IN [i \in 1..Len(calls) |-> [id |-> calls[i].id, name |-> "store_memory",
                                args |-> storeText.args]]

\* Variant: only finish_reason "tool_calls" keeps the conversation going.
openaiDoneUnlessToolCalls(toolCalls, finish_reason) ==
  Len(toolCalls) = 0 \/ finish_reason # "tool_calls"

\* done: toolCalls.length === 0 || choice.finish_reason === "stop"
openaiDone(toolCalls, finish_reason) ==
  Len(toolCalls) = 0 \/ finish_reason = "stop"

\* done: toolCalls.length === 0 || response.stop_reason !== "tool_use"
anthropicDone(toolCalls, stop_reason) ==
  Len(toolCalls) = 0 \/ stop_reason # "tool_use"

\* this.messages.push(choice.message) / push({ role: "assistant", content })
replyMessage(blocks) ==
  [kind |-> "reply", ids |-> [i \in 1..Len(blocks) |-> blocks[i].id],
   isError |-> FALSE]

\* Variant: only the result of a successful tool call is pushed.
pushedResultOnSuccessOnly(api, messages, toolCallId, isError) ==
  IF isError THEN messages ELSE Append(messages, toolResult(toolCallId, FALSE))

\* Variant: the result replaces the last transcript entry.
pushedResultReplacesLast(api, messages, toolCallId, isError) ==
  SubSeq(messages, 1, Len(messages) - 1) \o <<toolResult(toolCallId, isError)>>

\* this.messages.push(...): a "tool" message (OpenAI, which has no error
\* flag) or a user message holding one tool_result block (Anthropic).
pushedResult(api, messages, toolCallId, isError) ==
  Append(messages,
         toolResult(toolCallId, IF api = "openai-completions" THEN FALSE
                                ELSE isError))

\* evaluate constructs the adapter for this.api.
createAdapter ==
  /\ adapter.pc = "none"
  /\ \E api \in ChatApis :
       adapter' = [adapter EXCEPT !.api = api, !.pc = "ready",
                                  !.messages = initialMessages(api)]
  /\ UNCHANGED <<journalVars, evaluation, tool, config, path, memory>>

\* complete() is called: the request carries this.messages as they are.
completeCall ==
  /\ adapter.pc = "ready"
  /\ adapter.completes < MaxCompletes
  /\ adapter.completes > 0 => ~lastRound(adapter.response)
  /\ adapter.tc > Len(adapter.response.toolCalls)
  /\ adapter' = [adapter EXCEPT !.pc = "awaiting", !.completes = @ + 1,
                                !.requests = Append(@, adapter.messages)]
  /\ UNCHANGED <<journalVars, evaluation, tool, config, path, memory>>

\* The backend answers and complete() returns { toolCalls, done }.
completeReturns ==
  /\ adapter.pc = "awaiting"
  /\ \E reply \in backendReplies(adapter.api) :
       LET blocks == replyBlocks(reply, adapter.issuedIds)
           toolCalls == parsedToolCalls(adapter.api, blocks)
       IN adapter' =
            IF adapter.api = "openai-completions"
            THEN IF reply.choices = 0
                 THEN [adapter EXCEPT !.pc = "ready", !.reply = reply, !.tc = 1,
                                      !.response = [toolCalls |-> <<>>,
                                                    done |-> TRUE]]
                 ELSE [adapter EXCEPT
                         !.pc = "ready", !.reply = reply, !.tc = 1,
                         !.issuedIds = @ + Len(blocks),
                         !.messages = Append(@, replyMessage(blocks)),
                         !.replies = Append(@, blocks),
                         !.response = [toolCalls |-> toolCalls,
                                       done |-> openaiDone(toolCalls, reply.signal)]]
            ELSE [adapter EXCEPT
                    !.pc = "ready", !.reply = reply, !.tc = 1,
                    !.issuedIds = @ + Len(blocks),
                    !.messages = Append(@, replyMessage(blocks)),
                    !.replies = Append(@, blocks),
                    !.response = [toolCalls |-> toolCalls,
                                  done |-> anthropicDone(toolCalls, reply.signal)]]
  /\ UNCHANGED <<journalVars, evaluation, tool, config, path, memory>>

\* handleToolCall reports the outcome of the next tool call of the response.
pushToolResult ==
  /\ adapter.pc = "ready"
  /\ adapter.tc <= Len(adapter.response.toolCalls)
  /\ \E isError \in BOOLEAN :
       adapter' = [adapter EXCEPT
                     !.tc = @ + 1,
                     !.messages =
                        pushedResult(adapter.api, @,
                                     adapter.response.toolCalls[adapter.tc].id,
                                     isError)]
  /\ UNCHANGED <<journalVars, evaluation, tool, config, path, memory>>

\* The plugin's register(api) parses api.pluginConfig.
parse ==
  /\ config.pc = "idle"
  /\ \E value \in ConfigValues :
       config' = [pc |-> IF parseValue(value).threw THEN "thrown" ELSE "returned",
                  value |-> value, result |-> parseValue(value)]
  /\ UNCHANGED <<journalVars, evaluation, adapter, tool, path, memory>>

\* ------------------------------------------ the registered memory tools
ToolNames == {"memory_recall", "memory_store", "memory_forget"}

\* The ids a caller can pass: two of UUID format (one of them in the table),
\* and two that are not.
storedId == "3f2a9c1e-5b7d-4e8a-9c0b-1d2e3f4a5b6c"
otherId == "00000000-0000-4000-8000-000000000000"
MemoryIds == {storedId, otherId, "42", "x' OR '1'='1"}

\* /^[0-9a-f]{8}-[0-9a-f]{4}-[0-9a-f]{4}-[0-9a-f]{4}-[0-9a-f]{12}$/i.test(id)
uuidRegexTest(id) == id \in {storedId, otherId}

\* The table of an earlier run: one memory.
storedTable == {[id |-> storedId, text |-> "likes tea"]}

\* params as the host hands them to execute.
ToolParams ==
  [query : {"undefined", "", "tea"},
   text : {"undefined", "likes tea", "likes coffee"},
   memoryId : {"undefined", ""} \cup MemoryIds]

\* JavaScript truthiness of an optional string parameter.
truthy(v) == v \notin {"undefined", ""}

toolResolves(response) == [tool EXCEPT !.pc = "resolved", !.response = response]
toolRejects(error) == [tool EXCEPT !.pc = "rejected", !.response = error]

\* execute(_toolCallId, params) is called and runs to its first await.
execute ==
  /\ tool.pc = "idle"
  /\ \E name \in ToolNames, params \in ToolParams :
       LET t == [tool EXCEPT !.name = name, !.params = params,
                             !.table = storedTable]
       IN tool' =
            IF name = "memory_forget"
            THEN IF truthy(params.memoryId)
                 THEN [t EXCEPT !.pc = "delete", !.id = params.memoryId]
                 ELSE IF truthy(params.query)
                 THEN [t EXCEPT !.pc = "embed"]
                 ELSE [t EXCEPT !.pc = "resolved", !.response = "missing_param"]
            ELSE [t EXCEPT !.pc = "embed"]
  /\ UNCHANGED <<journalVars, evaluation, adapter, config, path, memory>>

\* await embeddings.embed(...) resolves with the vector of the text.
embed ==
  /\ tool.pc = "embed"
  /\ tool' = [tool EXCEPT !.pc = "search",
                          !.vector = IF tool.name = "memory_store"
                                     THEN tool.params.text ELSE tool.params.query]
  /\ UNCHANGED <<journalVars, evaluation, adapter, config, path, memory>>

\* await db.search(vector, limit, minScore) resolves: no row is near enough,
\* one row is near (score above 0.95), or it is only a candidate. The row of
\* the very same text is always near.
search ==
  /\ tool.pc = "search"
  /\ \E results \in {<<>>} \cup {<<[entry |-> row, near |-> near]>> :
                                   row \in tool.table, near \in BOOLEAN} :
       /\ (\E row \in tool.table : row.text = tool.vector) =>
            (Len(results) > 0 /\ results[1].near)
       /\ tool' =
            CASE tool.name = "memory_recall" ->
                   toolResolves(IF Len(results) = 0 THEN "none" ELSE "found")
              [] tool.name = "memory_store" ->
                   IF Len(results) > 0 /\ results[1].near
                   THEN toolResolves("duplicate")
                   ELSE [tool EXCEPT !.pc = "store"]
              [] OTHER ->
                   IF Len(results) = 0 THEN toolResolves("found 0")
                   ELSE IF results[1].near
                   THEN [tool EXCEPT !.pc = "delete", !.id = results[1].entry.id]
                   ELSE toolResolves("candidates")
  /\ UNCHANGED <<journalVars, evaluation, adapter, config, path, memory>>

\* await db.store(...) resolves with the new entry.
store ==
  /\ tool.pc = "store"
  /\ tool' = [toolResolves("created") EXCEPT
                !.table = @ \cup {[id |-> otherId, text |-> tool.params.text]}]
  /\ UNCHANGED <<journalVars, evaluation, adapter, config, path, memory>>

\* await db.delete(id): an id that is not of UUID format throws, and nothing
\* in execute catches it; otherwise the row (if any) is deleted.
delete ==
  /\ tool.pc = "delete"
  /\ tool' =
       IF ~uuidRegexTest(tool.id)
       THEN toolRejects("Invalid memory ID format")
       ELSE [toolResolves("deleted") EXCEPT
               !.table = {row \in @ : row.id # tool.id}]
  /\ UNCHANGED <<journalVars, evaluation, adapter, config, path, memory>>

\* ------------------------------------------------------------ journalPath
\* The characters a session key is made of: safe ones, and the ones a path
\* could be built from.
KeyChars == {"a", "_", "-", ".", "/", "\\"}

RECURSIVE keysOfLength(_)
keysOfLength(n) ==
  IF n = 0 THEN {<<>>}
  ELSE {Append(k, c) : k \in keysOfLength(n - 1), c \in KeyChars}

\* this.journalPath(sessionKey), as load and save call it with any key.
resolvePath ==
  /\ path.pc = "idle"
  /\ \E n \in 0..MaxKeyLen : \E sessionKey \in keysOfLength(n) :
       path' = [pc |-> "resolved", key |-> sessionKey,
                file |-> join(sessionsDir, journalPath(sessionKey))]
  /\ UNCHANGED <<journalVars, evaluation, adapter, tool, config, memory>>

\* ------------------------------------------------- executeTool on MemoryOps
\* The arguments a model can send: absent, empty, well-formed, and values
\* outside what TOOL_DEFS declares.
ToolCallNames == {"store_memory", "forget_memory", "update_memory", "recall_memory"}
ToolCallArgs ==
  [text : {"undefined", "", "likes tea", "likes coffee"},
   memoryId : {"undefined", "3f2a9c1e-5b7d-4e8a-9c0b-1d2e3f4a5b6c", "42"},
   category : {"undefined", "preference", "fact", "decision", "entity", "other",
               "mood"}]

\* String(args.category ?? "other") as MemoryCategory
categoryOf(args) == IF args.category = "undefined" THEN "other" ELSE args.category

\* The id db.store gives the row it adds (randomUUID()).
addedId == "7c9e6679-7425-40de-944b-e07fc1f90ae7"

\* The MemoryOps method rejects, and executeTool with it.
memoryRejects(message) ==
  [memory EXCEPT !.pc = "rejected", !.error = message]

\* executeTool(name, args, deltaIndex) up to its MemoryOps call: the arguments
\* are converted, a missing text or memoryId (or an unknown name) throws,
\* otherwise ops.store / ops.forget / ops.update is called and awaits its
\* first step.
callExecuteTool ==
  /\ memory.pc = "idle"
  /\ \E name \in ToolCallNames, args \in ToolCallArgs :
       LET called == [memory EXCEPT !.name = name, !.args = args] IN
       memory' =
         IF executeToolThrows(name, args)
         THEN [called EXCEPT !.pc = "rejected", !.error = "required or unknown"]
         ELSE [called EXCEPT
                 !.method = CASE name = "store_memory" -> "store"
                              [] name = "forget_memory" -> "forget"
                              [] OTHER -> "update",
                 !.passed = [text |-> IF name = "forget_memory" THEN ""
                                      ELSE argString(args.text),
                             memoryId |-> IF name = "store_memory" THEN ""
                                          ELSE argString(args.memoryId),
                             category |-> IF name = "forget_memory" THEN ""
                                          ELSE categoryOf(args)],
                 !.pc = IF name = "store_memory" THEN "embed" ELSE "delete"]
  /\ UNCHANGED <<journalVars, evaluation, adapter, tool, config, path>>

\* await db.delete(memoryId) in ops.forget and ops.update: an id that is not
\* of UUID format throws, as does a failing table; otherwise the row (if
\* any) is gone, and forget resolves while update goes on to embed.
dbDelete ==
  /\ memory.pc = "delete"
  /\ \E fails \in BOOLEAN :
       memory' =
         IF ~uuidRegexTest(memory.passed.memoryId)
         THEN memoryRejects("Invalid memory ID format")
         ELSE IF fails
         THEN memoryRejects("delete failed")
         ELSE [memory EXCEPT
                 !.table = {row \in @ : row.id # memory.passed.memoryId},
                 !.pc = IF memory.method = "forget" THEN "resolved" ELSE "embed"]
  /\ UNCHANGED <<journalVars, evaluation, adapter, tool, config, path>>

\* await embeddings.embed(text) in ops.store and ops.update: the embedding
\* service answers with a vector, or the request fails.
embeddingsEmbed ==
  /\ memory.pc = "embed"
  /\ \E fails \in BOOLEAN :
       memory' =
         IF fails THEN memoryRejects("embedding failed")
         ELSE [memory EXCEPT !.pc = IF memory.method = "store" THEN "search"
                                    ELSE "add"]
  /\ UNCHANGED <<journalVars, evaluation, adapter, tool, config, path>>

\* await db.search(vector, 1, 0.95) in ops.store: a memory of the same text
\* is a near-duplicate, and ops.store throws.
dbSearch ==
  /\ memory.pc = "search"
  /\ memory' =
       IF \E row \in memory.table : row.text = memory.passed.text
       THEN memoryRejects("Similar memory already exists")
       ELSE [memory EXCEPT !.pc = "add"]
  /\ UNCHANGED <<journalVars, evaluation, adapter, tool, config, path>>

\* await db.store({ text, vector, importance, category }): the row is added
\* under a new id, or the table fails.
dbStore ==
  /\ memory.pc = "add"
  /\ \E fails \in BOOLEAN :
       memory' =
         IF fails THEN memoryRejects("add failed")
         ELSE [memory EXCEPT
                 !.pc = "resolved",
                 !.table = @ \cup {[id |-> addedId, text |-> memory.passed.text,
                                    category |-> memory.passed.category]}]
  /\ UNCHANGED <<journalVars, evaluation, adapter, tool, config, path>>

\* ------------------------------------------------------------ the process
\* The host process dies and is started again: a new SessionJournal with empty
\* queues and cache; the files stay as they are.
Crash ==
  /\ \E k \in SessionKeys : Len(ops[k]) > 0
  /\ cache' = [k \in SessionKeys |-> <<>>]
  /\ ops' = [k \in SessionKeys |-> <<>>]
  /\ ref' = [k \in SessionKeys |-> readJournal(files[journalPath(k)])]
  /\ handlers' = [e \in Events |-> IF e <= started
                                    THEN returnedHandler(handlers[e])
                                    ELSE idleHandler]
  /\ UNCHANGED <<files, started, issued, evaluation, adapter, tool, config, path, memory>>

\* ------------------------------------------------------- specifications
\* A step of the journal's queue: a reaction that is ready runs (the event
\* loop drains its job queue) and a file-system call returns or throws.
JournalStep ==
  \/ \E k \in SessionKeys : \E i \in DOMAIN ops[k] : load(k, i)
  \/ \E k \in SessionKeys : \E i \in DOMAIN ops[k] : appendMessagesBody(k, i)
  \/ \E k \in SessionKeys : \E i \in DOMAIN ops[k] : commitDecisionsBody(k, i)
  \/ \E k \in SessionKeys : \E i \in DOMAIN ops[k] : saveWriteBegin(k, i)
  \/ \E k \in SessionKeys : \E i \in DOMAIN ops[k] : saveWriteEnd(k, i)
  \/ \E k \in SessionKeys : \E i \in DOMAIN ops[k] : saveWriteFail(k, i)
  \/ \E k \in SessionKeys : \E i \in DOMAIN ops[k] : saveRename(k, i)
  \/ \E k \in SessionKeys : \E i \in DOMAIN ops[k] : saveRenameFail(k, i)

\* The plugin: agent_end events drive the journal and the decision maker.
Next ==
  \/ \E e \in Events : agent_end(e)
  \/ \E e \in Events : appendMessagesSettled(e)
  \/ \E e \in Events : evaluateRound(e)
  \/ \E e \in Events : memoryOpSettled(e)
  \/ \E e \in Events : commitDecisionsCall(e)
  \/ \E e \in Events : commitDecisionsSettled(e)
  \/ JournalStep
  \/ Crash

Spec == Init /\ [][Next]_vars

\* The journal alone, under any callers of its two operations.
NextJournal ==
  \/ callAppendMessages
  \/ callCommitDecisions
  \/ JournalStep
  \/ Crash

SpecJournal == Init /\ [][NextJournal]_vars

FairSpecJournal == SpecJournal /\ WF_vars(JournalStep)

\* The journal under callers of several sessions, among them two whose keys
\* differ only in a character that journalPath replaces.
NextSessions ==
  \/ appendMessages(SessionKeys, MaxSessionCalls)
  \/ commitDecisions(SessionKeys, MaxSessionCalls)
  \/ JournalStep
  \/ Crash

SpecSessions == Init /\ [][NextSessions]_vars

\* The journal started over the sessions directory of an earlier run: every
\* session file is missing, unparsable, or holds a journal.
InitLoad ==
  /\ adapter = idleAdapter
  /\ tool = idleTool
  /\ config = idleConfig
  /\ path = idlePath
  /\ memory = idleMemory
  /\ \E file \in {fileMissing, fileCorrupt, fileOf(storedJournal)} :
       files = [p \in Paths |-> file]
  /\ cache = [k \in SessionKeys |-> <<>>]
  /\ ops = [k \in SessionKeys |-> <<>>]
  /\ handlers = [e \in Events |-> idleHandler]
  /\ started = 0
  /\ issued = 0
  /\ ref = [k \in SessionKeys |-> readJournal(files[journalPath(k)])]
  /\ evaluation = idleEvaluation

SpecLoad == InitLoad /\ [][NextJournal]_vars

\* One evaluate call on any journal, whatever the backend and MemoryOps do.
InitEvaluate ==
  /\ adapter = idleAdapter
  /\ tool = idleTool
  /\ config = idleConfig
  /\ path = idlePath
  /\ memory = idleMemory
  /\ files = [p \in Paths |-> fileMissing]
  /\ cache = [k \in SessionKeys |-> <<>>]
  /\ ops = [k \in SessionKeys |-> <<>>]
  /\ handlers = [e \in Events |-> idleHandler]
  /\ started = 0
  /\ issued = 0
  /\ ref = [k \in SessionKeys |-> freshJournal]
  /\ \E journal \in EvaluateJournals :
       evaluation = [idleEvaluation EXCEPT
                       !.journal = journal,
                       !.delta = slice(journal.cleanContext, journal.processedIndex)]

NextEvaluate ==
  \/ evaluateStep
  \/ journalGrows

SpecEvaluate == InitEvaluate /\ [][NextEvaluate]_vars

\* Every await of evaluate settles: the backend answers or fails, and so does
\* every MemoryOps call.
FairSpecEvaluate == SpecEvaluate /\ WF_vars(evaluateStep)

\* One evaluate call under a clock that advances.
NextClock ==
  \/ evaluateStep
  \/ clockTick

SpecClock == InitEvaluate /\ [][NextClock]_vars

\* One adapter of either kind, driven the way evaluate drives it, whatever
\* the backend answers.
NextAdapter ==
  \/ createAdapter
  \/ completeCall
  \/ completeReturns
  \/ pushToolResult

SpecAdapter == Init /\ [][NextAdapter]_vars

\* One call of a memory tool with any parameters; the embedding backend and
\* the table answer every request.
NextTools ==
  \/ execute
  \/ embed
  \/ search
  \/ store
  \/ delete

SpecTools == Init /\ [][NextTools]_vars

\* One parse call on any plugin configuration.
NextConfig == parse

SpecConfig == Init /\ [][NextConfig]_vars

\* One executeTool call with any name and arguments, on the memory table.
NextMemoryOps ==
  \/ callExecuteTool
  \/ dbDelete
  \/ embeddingsEmbed
  \/ dbSearch
  \/ dbStore

SpecMemoryOps == Init /\ [][NextMemoryOps]_vars

\* One journalPath call on any session key.
NextPath == resolvePath

SpecPath == Init /\ [][NextPath]_vars

\* ---------------------------------------------------- shared vocabulary
MaxOps == IF MaxCalls > 2 * MaxEvents THEN MaxCalls ELSE 2 * MaxEvents
OpIds == 1..MaxOps

hasOp(k, i) == i \in DOMAIN ops[k]

\* The body of fn (the mutation of the journal) has been executed.
bodyDone(op) == op.st \notin {"queued", "loaded"}

\* The step in which operation i of key k executes its body.
bodyStep(k, i, kind) ==
  /\ hasOp(k, i)
  /\ ops[k][i].kind = kind
  /\ ops[k][i].st = "loaded"
  /\ i \in DOMAIN ops'[k]
  /\ ops'[k][i].id = ops[k][i].id
  /\ ops'[k][i].st # "loaded"

isPrefix(s, t) == Len(s) <= Len(t) /\ SubSeq(t, 1, Len(s)) = s

allPresent(messages, cleanContext) ==
  \A n \in 1..Len(messages) :
    \E j \in 1..Len(cleanContext) :
      /\ cleanContext[j].role = messages[n].role
      /\ cleanContext[j].text = messages[n].text

\* ------------------------------------------------------------------- C1
\* C1: operations on one session key run strictly one after another in
\* submission order: no operation has started while an earlier one of the same
\* key is unsettled, and once all of them have settled the JournalData is the
\* one obtained by applying the calls one after another in submission order.
C1_SerializedInSubmissionOrder ==
  \A k \in SessionKeys :
    /\ \A i, j \in DOMAIN ops[k] :
         (i < j /\ ops[k][j].st # "queued") => ops[k][i].st \in Settled
    /\ (cache[k] # <<>> /\ \A i \in DOMAIN ops[k] : ops[k][i].st \in Settled)
         => cache[k][1] = ref[k]

\* Three calls on one key have all settled, the last two an append that added
\* a message and a commit that advanced processedIndex, and the journal holds
\* what the three calls produce one after another.
C1_Witness ==
  \E k \in SessionKeys :
    /\ issued = 3
    /\ Len(ops[k]) = 2
    /\ \A i \in 1..2 : ops[k][i].st \in Settled
    /\ ops[k][1].id = 2 /\ ops[k][1].kind = "append" /\ ops[k][1].fresh # <<>>
    /\ ops[k][2].id = 3 /\ ops[k][2].kind = "commit"
    /\ ops[k][2].newProcessedIndex > 0
    /\ cache[k] # <<>>
    /\ cache[k][1] = ref[k]
    /\ Len(cache[k][1].cleanContext) >= 2

\* ------------------------------------------------------------------- C2
opQueued(id) ==
  \E k \in SessionKeys : \E i \in DOMAIN ops[k] :
    ops[k][i].id = id /\ ops[k][i].st = "queued"

opUnsettled(id) ==
  \E k \in SessionKeys : \E i \in DOMAIN ops[k] :
    ops[k][i].id = id /\ ops[k][i].st \notin Settled

\* C2: an operation is rejected only with the error of its own save, never
\* with the error of an earlier operation of the queue, and every queued
\* operation is eventually run to its end (or the process has died), whatever
\* the outcome of the operations before it.
C2_QueueAdvancesAfterFailure ==
  /\ [](\A k \in SessionKeys : \A i \in DOMAIN ops[k] :
          ops[k][i].st = "rejected" => ops[k][i].err = ops[k][i].id)
  /\ \A id \in OpIds : opQueued(id) ~> ~opUnsettled(id)

\* An operation has failed, and the one queued behind it has run and succeeded.
C2_Witness ==
  \E k \in SessionKeys : \E i \in DOMAIN ops[k] :
    /\ hasOp(k, i + 1)
    /\ ops[k][i].st = "rejected"
    /\ ops[k][i + 1].st = "fulfilled"
    /\ ops[k][i + 1].err = 0
    /\ bodyDone(ops[k][i + 1])

\* ------------------------------------------------------------------- C3
\* C3: in every reachable state, in the cached journal of every session and in
\* every persisted journal file, 0 <= processedIndex <= length(cleanContext).
indexInRange(journal) ==
  0 <= journal.processedIndex /\ journal.processedIndex <= Len(journal.cleanContext)

C3_IndexInRange ==
  /\ \A k \in SessionKeys : cache[k] # <<>> => indexInRange(cache[k][1])
  /\ \A p \in Paths : files[p].st = "valid" => indexInRange(files[p].data)

\* A commit has advanced processedIndex while a later append has already grown
\* cleanContext beyond it.
C3_Witness ==
  \E k \in SessionKeys :
    /\ cache[k] # <<>>
    /\ cache[k][1].processedIndex > 0
    /\ cache[k][1].processedIndex < Len(cache[k][1].cleanContext)

\* ------------------------------------------------------------------- C4
\* The step in which the handler calls commitDecisions for key k.
commitRequested(k) ==
  /\ Len(ops'[k]) = Len(ops[k]) + 1
  /\ ops'[k][Len(ops'[k])].kind = "commit"

\* C4 as stated: immediately after a commitDecisions operation takes effect,
\* processedIndex equals length(cleanContext) of the journal at that moment.
C4_IndexEqualsLengthAtCommit ==
  [][\A k \in SessionKeys, i \in OpIds :
       bodyStep(k, i, "commit") =>
         cache'[k][1].processedIndex = Len(cache'[k][1].cleanContext)]_vars

\* C4 amended: immediately after a commitDecisions operation takes effect,
\* processedIndex equals the newProcessedIndex it was called with, which is
\* length(cleanContext) as read when the commit was requested, and is at most
\* length(cleanContext) at the moment the commit executes.
C4_IndexIsLengthAtRequest ==
  [][\A k \in SessionKeys :
       /\ commitRequested(k) =>
            ops'[k][Len(ops'[k])].newProcessedIndex = Len(cache[k][1].cleanContext)
       /\ \A i \in OpIds :
            bodyStep(k, i, "commit") =>
              /\ cache'[k][1].processedIndex = ops[k][i].newProcessedIndex
              /\ cache'[k][1].processedIndex <= Len(cache'[k][1].cleanContext)]_vars

\* A commit has taken effect after another event's append grew cleanContext
\* between the request and the execution of the commit.
C4_Witness ==
  \E k \in SessionKeys : \E i \in DOMAIN ops[k] :
    /\ ops[k][i].kind = "commit"
    /\ ops[k][i].st = "write"
    /\ cache[k][1].processedIndex = ops[k][i].newProcessedIndex
    /\ cache[k][1].processedIndex < Len(cache[k][1].cleanContext)

\* ------------------------------------------------------------------- C5
\* Two appendMessages calls with the same messages, the second queued right
\* behind the first, both completed.
repeatedAppend(k, i) ==
  /\ i > 1
  /\ hasOp(k, i)
  /\ ops[k][i].kind = "append"
  /\ ops[k][i - 1].kind = "append"
  /\ ops[k][i].messages = ops[k][i - 1].messages
  /\ ops[k][i].st = "fulfilled"
  /\ ops[k][i - 1].st = "fulfilled"

\* C5 as stated: the second of two immediately successive appendMessages calls
\* with the same messages returns an empty delta.
C5_SecondDeltaEmpty ==
  \A k \in SessionKeys, i \in OpIds :
    repeatedAppend(k, i) => ops[k][i].delta = <<>>

\* C5 amended: the second of two immediately successive appendMessages calls
\* with the same messages appends nothing and returns the same delta as the
\* first call, the unprocessed suffix cleanContext[processedIndex:].
C5_SecondAppendAddsNothing ==
  \A k \in SessionKeys, i \in OpIds :
    repeatedAppend(k, i) =>
      /\ ops[k][i].fresh = <<>>
      /\ ops[k][i].delta = ops[k][i - 1].delta

\* The repeated call has completed after a first call that did append.
C5_Witness ==
  \E k \in SessionKeys, i \in OpIds :
    /\ repeatedAppend(k, i)
    /\ ops[k][i - 1].fresh # <<>>
    /\ ops[k][i].delta # <<>>

\* ------------------------------------------------------------------- C6
\* C6: in every reachable state cleanContext holds no two entries with the
\* same (role, text) pair.
C6_NoDuplicates ==
  \A k \in SessionKeys :
    cache[k] # <<>> =>
      \A i, j \in 1..Len(cache[k][1].cleanContext) :
        i # j => cache[k][1].cleanContext[i] # cache[k][1].cleanContext[j]

\* ------------------------------------------------------------------- C7
\* C7: an appendMessages call whose every message has a (role, text) pair
\* already present in cleanContext leaves length(cleanContext) unchanged.
C7_KnownMessagesAddNothing ==
  [][\A k \in SessionKeys, i \in OpIds :
       (bodyStep(k, i, "append")
          /\ allPresent(ops[k][i].messages, cache[k][1].cleanContext))
       => Len(cache'[k][1].cleanContext) = Len(cache[k][1].cleanContext)]_vars

\* An appendMessages call that carried only known messages has completed on a
\* journal that already held messages.
C7_Witness ==
  \E k \in SessionKeys : \E i \in DOMAIN ops[k] :
    /\ ops[k][i].kind = "append"
    /\ ops[k][i].st = "fulfilled"
    /\ ops[k][i].messages # <<>>
    /\ ops[k][i].fresh = <<>>
    /\ cache[k] # <<>>
    /\ allPresent(ops[k][i].messages, cache[k][1].cleanContext)

\* ------------------------------------------------------------------- C8
\* C8: cleanContext and memoryLogs only grow at their end: across every step
\* of a running process the old sequences are prefixes of the new ones;
\* the body of appendMessages leaves memoryLogs and processedIndex unchanged;
\* the body of commitDecisions leaves cleanContext unchanged, sets memoryLogs to
\* the old memoryLogs followed by logs and processedIndex to newProcessedIndex.
C8_AppendOnlyFrames ==
  [][\A k \in SessionKeys :
       (cache[k] # <<>> /\ cache'[k] # <<>>) =>
         /\ isPrefix(cache[k][1].cleanContext, cache'[k][1].cleanContext)
         /\ isPrefix(cache[k][1].memoryLogs, cache'[k][1].memoryLogs)
         /\ \A i \in OpIds :
              /\ bodyStep(k, i, "append") =>
                   /\ cache'[k][1].memoryLogs = cache[k][1].memoryLogs
                   /\ cache'[k][1].processedIndex = cache[k][1].processedIndex
              /\ bodyStep(k, i, "commit") =>
                   /\ cache'[k][1].cleanContext = cache[k][1].cleanContext
                   /\ cache'[k][1].memoryLogs =
                        cache[k][1].memoryLogs \o ops[k][i].logs
                   /\ cache'[k][1].processedIndex = ops[k][i].newProcessedIndex]_vars

\* A second commit has added its log entry behind the first one's, on a
\* journal that holds messages.
C8_Witness ==
  \E k \in SessionKeys : \E i \in DOMAIN ops[k] :
    /\ cache[k] # <<>>
    /\ Len(cache[k][1].memoryLogs) >= 2
    /\ Len(cache[k][1].cleanContext) >= 1
    /\ ops[k][i].kind = "commit" /\ ops[k][i].logs # <<>> /\ bodyDone(ops[k][i])

\* ------------------------------------------------------------------- C9
\* The step in which appendMessages operation i of key k returns.
appendReturns(k, i) ==
  /\ hasOp(k, i)
  /\ ops[k][i].kind = "append"
  /\ ops[k][i].st # "fulfilled"
  /\ i \in DOMAIN ops'[k]
  /\ ops'[k][i].id = ops[k][i].id
  /\ ops'[k][i].st = "fulfilled"

\* C9: appendMessages appends the messages not yet in cleanContext in input
\* order; it returns the updated journal with delta = cleanContext[processedIndex:]
\* of that journal; the session file is written only by a call that found
\* fresh messages (then it holds the updated journal), and a call without fresh
\* messages returns without touching the file.
C9_AppendResult ==
  [][\A k \in SessionKeys, i \in OpIds :
       /\ bodyStep(k, i, "append") =>
            cache'[k][1].cleanContext =
              cache[k][1].cleanContext \o
              SelectSeq(ops[k][i].messages,
                        LAMBDA m : ~allPresent(<<m>>, cache[k][1].cleanContext))
       /\ appendReturns(k, i) =>
            /\ cache'[k] = cache[k]
            /\ ops'[k][i].delta =
                 SubSeq(cache[k][1].cleanContext, cache[k][1].processedIndex + 1,
                        Len(cache[k][1].cleanContext))
            /\ IF allPresent(ops[k][i].messages, cache[k][1].cleanContext)
                  /\ ops[k][i].st = "loaded"
               THEN files' = files
               ELSE files'[journalPath(k)] = fileOf(cache[k][1])]_vars

\* An appendMessages call with fresh messages has returned a delta shorter
\* than the context (processedIndex > 0) and the file holds the new journal.
C9_Witness ==
  \E k \in SessionKeys : \E i \in DOMAIN ops[k] :
    /\ ops[k][i].kind = "append"
    /\ ops[k][i].st = "fulfilled"
    /\ ops[k][i].fresh # <<>>
    /\ ops[k][i].delta # <<>>
    /\ Len(ops[k][i].delta) < Len(cache[k][1].cleanContext)
    /\ files[journalPath(k)] = fileOf(cache[k][1])

\* ------------------------------------------------------------------ C10
\* C10: across every step, a crash included, the canonical journal file of a
\* session either keeps its content or becomes the complete document of the
\* session's current journal; it never holds a partly written document.
C10_AtomicReplace ==
  [][\A k \in SessionKeys :
       LET p == journalPath(k) IN
         /\ files'[p].st # "partial"
         /\ \/ files'[p] = files[p]
            \/ /\ cache[k] # <<>>
               /\ files'[p] = fileOf(cache[k][1])]_vars

\* A save stands between its temp write and its rename while the canonical
\* file still holds the previously committed, different journal.
C10_Witness ==
  \E k \in SessionKeys : \E i \in DOMAIN ops[k] :
    /\ ops[k][i].st = "rename"
    /\ ops[k][i].tmp.st = "valid"
    /\ files[journalPath(k)].st = "valid"
    /\ files[journalPath(k)].data # ops[k][i].tmp.data

\* ------------------------------------------------------------------ C11
\* C11: when the session's journal file is missing or unparsable, load does
\* not fail the caller: a queued operation only ever moves on to its body
\* (never to a rejection), and when it loads with no cached journal and a file
\* that is missing or does not parse, the cached journal of the session
\* becomes the fresh JournalData (processedIndex 0, no messages, no logs).
C11_LoadFallsBackToFresh ==
  [][\A k \in SessionKeys : \A i \in DOMAIN ops[k], j \in DOMAIN ops'[k] :
       (ops[k][i].st = "queued" /\ ops'[k][j].id = ops[k][i].id) =>
         /\ ops'[k][j].st \in {"queued", "loaded"}
         /\ (ops'[k][j].st = "loaded" /\ cache[k] = <<>>
               /\ files[journalPath(k)].st # "valid")
            => cache'[k] = <<freshJournal>>]_vars

\* An operation has loaded over an unparsable file and holds the fresh journal.
C11_Witness ==
  \E k \in SessionKeys : \E i \in DOMAIN ops[k] :
    /\ ops[k][i].st = "loaded"
    /\ files[journalPath(k)].st = "corrupt"
    /\ cache[k] = <<freshJournal>>

\* ------------------------------------------------------------------ C12
\* A step of the queue of session k alone.
stepOf(k) ==
  /\ ops'[k] # ops[k]
  /\ \A j \in SessionKeys \ {k} : ops'[j] = ops[j]

\* C12: for any two distinct session keys, a step of an operation on one key
\* leaves the cached journal and the persisted journal file of the other key
\* as they were.
C12_SessionsIsolated ==
  [][\A k \in SessionKeys, j \in SessionKeys :
       (k # j /\ stepOf(k)) =>
         /\ cache'[j] = cache[j]
         /\ files'[journalPath(j)] = files[journalPath(j)]]_vars

\* ------------------------------------------------------------------ C13
\* C13: evaluate makes at most MAX_TOOL_ITERATIONS calls to complete(); when
\* the loop reaches the cap it makes no further call, raises no error and
\* returns the logs gathered so far; and (every await settling) evaluate
\* always comes to an end, even if every round requests tool calls.
C13_TerminatesWithinCap ==
  /\ [](evaluation.completes <= MAX_TOOL_ITERATIONS)
  /\ [][(evaluation.pc = "round" /\ evaluation.iter = MAX_TOOL_ITERATIONS) =>
          evaluation' = [evaluation EXCEPT !.pc = "returned"]]_vars
  /\ <>(evaluation.pc \in {"returned", "thrown"})

\* evaluate has returned from the cap: five rounds, each with a tool call and
\* none of them the last by itself, and the logs of the successful calls.
C13_Witness ==
  /\ evaluation.pc = "returned"
  /\ evaluation.iter = MAX_TOOL_ITERATIONS
  /\ evaluation.completes = MAX_TOOL_ITERATIONS
  /\ evaluation.requested >= MAX_TOOL_ITERATIONS
  /\ Len(evaluation.logs) >= 2

\* ------------------------------------------------------------------ C14
\* C14: evaluate called with an empty delta returns no logs, and never
\* constructs an adapter, calls complete() or calls a MemoryOps method.
C14_EmptyDeltaReturnsAtOnce ==
  Len(evaluation.delta) = 0 =>
    /\ evaluation.pc \in {"idle", "returned"}
    /\ ~evaluation.adapter
    /\ evaluation.completes = 0
    /\ evaluation.opsCalls = 0
    /\ evaluation.transcript = <<>>
    /\ evaluation.logs = <<>>

\* evaluate has returned for an empty delta of a journal that holds messages.
C14_Witness ==
  /\ evaluation.pc = "returned"
  /\ Len(evaluation.delta) = 0
  /\ Len(evaluation.journal.cleanContext) > 0

\* ------------------------------------------------------------------ C15
\* The tool-result entries of a transcript, in the order they were pushed.
resultsOf(transcript) == SelectSeq(transcript, LAMBDA m : m.kind = "result")

\* Tool call id has a result in the transcript.
hasResult(transcript, id) ==
  \E t \in DOMAIN transcript :
    transcript[t].kind = "result" /\ transcript[t].ids = <<id>>

\* C15: when the round whose response has no tool calls or has done = true
\* is left, every tool call of that response has been executed with its
\* result pushed, and evaluate returns: no complete() call follows.
C15_LastRoundRunsItsCallsThenStops ==
  [][(/\ evaluation.pc = "tools"
      /\ (Len(evaluation.response.toolCalls) = 0 \/ evaluation.response.done)
      /\ evaluation'.pc # "tools")
     => /\ evaluation'.pc = "returned"
        /\ evaluation'.completes = evaluation.completes
        /\ \A i \in 1..Len(evaluation.response.toolCalls) :
             hasResult(evaluation'.transcript, evaluation.response.toolCalls[i].id)]_vars

\* evaluate has returned after a single round whose reply carried two tool
\* calls (so it was done = true), both answered.
C15_Witness ==
  /\ evaluation.pc = "returned"
  /\ evaluation.completes = 1
  /\ Len(evaluation.transcript) = 3
  /\ Len(evaluation.transcript[1].ids) = 2
  /\ hasResult(evaluation.transcript, 1)
  /\ hasResult(evaluation.transcript, 2)

\* ------------------------------------------------------------------ C16
\* C16: within one evaluate call at most one MemoryOps call is in flight; the
\* results are pushed in the order the backend returned the calls (ids count
\* the calls in that order), the call in flight being the next one; and
\* whenever complete() is about to start or running, every tool call
\* requested so far has settled with its result pushed.
C16_OneToolCallAtATime ==
  LET results == resultsOf(evaluation.transcript)
  IN /\ Cardinality(evaluation.pending) <= 1
     /\ \A i \in 1..Len(results) : results[i].ids = <<i>>
     /\ \A p \in evaluation.pending : p.call.id = Len(results) + 1
     /\ evaluation.pc \in {"round", "complete"} =>
          /\ evaluation.pending = {}
          /\ Len(results) = evaluation.requested

\* complete() of the second round is running after a first round of two
\* tool calls, the second of which went to MemoryOps.
C16_Witness ==
  /\ evaluation.pc = "complete"
  /\ evaluation.completes = 2
  /\ evaluation.requested = 2
  /\ evaluation.opsCalls >= 1
  /\ Len(resultsOf(evaluation.transcript)) = 2

\* ------------------------------------------------------------------ C17
\* The tool call is one executeTool refuses: an unknown name, or a required
\* argument missing or empty.
invalidCall(call) ==
  \/ call.name \notin {"store_memory", "forget_memory", "update_memory"}
  \/ call.name \in {"store_memory", "update_memory"} /\ argString(call.args.text) = ""
  \/ call.name \in {"forget_memory", "update_memory"}
       /\ argString(call.args.memoryId) = ""

\* The step in which a tool call fails: call is refused by executeTool, or
\* its MemoryOps call rejects.
toolCallFails(call) ==
  /\ evaluation'.failures = evaluation.failures + 1
  /\ \/ /\ evaluation.pending = {}
        /\ evaluation.tc <= Len(evaluation.response.toolCalls)
        /\ call = evaluation.response.toolCalls[evaluation.tc]
     \/ \E p \in evaluation.pending : p.call = call

\* C17: a tool call that fails (argument validation, unknown tool name, or
\* its MemoryOps method throwing) gets a result pushed for its id with
\* isError = true and adds nothing to logs; evaluate stays in its loop with the
\* remaining calls (it does not throw); a call executeTool refuses fails
\* at once; and each failure has exactly one error result.
C17_FailedToolCallIsReported ==
  /\ [][\A call \in {evaluation.response.toolCalls[i] :
                        i \in 1..Len(evaluation.response.toolCalls)} :
          /\ toolCallFails(call) =>
               /\ evaluation'.transcript =
                    Append(evaluation.transcript, toolResult(call.id, TRUE))
               /\ evaluation'.logs = evaluation.logs
               /\ evaluation'.pc = "tools"
               /\ evaluation'.response = evaluation.response
          /\ (/\ evaluation.pc = "tools" /\ evaluation.pending = {}
              /\ evaluation.tc <= Len(evaluation.response.toolCalls)
              /\ call = evaluation.response.toolCalls[evaluation.tc]
              /\ invalidCall(call)
              /\ evaluation'.tc # evaluation.tc)
             => toolCallFails(call)]_vars
  /\ [](Len(SelectSeq(evaluation.transcript,
                      LAMBDA m : m.kind = "result" /\ m.isError))
          = evaluation.failures)

\* evaluate has returned after an unknown tool, a refused argument and a
\* rejected MemoryOps call, with a later call logged.
C17_Witness ==
  /\ evaluation.pc = "returned"
  /\ evaluation.failures >= 3
  /\ evaluation.failures > evaluation.requested - evaluation.opsCalls
  /\ evaluation.requested - evaluation.opsCalls >= 2
  /\ Len(evaluation.logs) >= 1
  /\ ~evaluation.transcript[Len(evaluation.transcript)].isError

\* ------------------------------------------------------------------ C18
\* The log action that belongs to a tool name.
actionOf(name) ==
  CASE name = "store_memory" -> "store"
    [] name = "forget_memory" -> "forget"
    [] name = "update_memory" -> "update"
    [] OTHER -> "none"

\* C18: logs holds exactly one entry per tool call whose MemoryOps call
\* succeeded, in execution order: the step in which a MemoryOps call resolves
\* appends one entry for that call and pushes its result with isError = false,
\* and no other step changes logs; so logs has as many entries as MemoryOps
\* calls succeeded, and as many as results pushed with isError = false.
C18_OneLogPerSuccess ==
  /\ [](/\ Len(evaluation.logs) = evaluation.successes
        /\ Len(SelectSeq(evaluation.transcript,
                         LAMBDA m : m.kind = "result" /\ ~m.isError))
             = evaluation.successes)
  /\ [][IF evaluation'.successes = evaluation.successes + 1
        THEN \E p \in evaluation.pending :
               /\ evaluation'.pending = evaluation.pending \ {p}
               /\ Len(evaluation'.logs) = Len(evaluation.logs) + 1
               /\ SubSeq(evaluation'.logs, 1, Len(evaluation.logs)) = evaluation.logs
               /\ evaluation'.logs[Len(evaluation'.logs)].action = actionOf(p.call.name)
               /\ evaluation'.transcript =
                    Append(evaluation.transcript, toolResult(p.call.id, FALSE))
        ELSE evaluation'.logs = evaluation.logs]_vars

\* evaluate has returned two entries, a store and then a forget, after a
\* call that failed.
C18_Witness ==
  /\ evaluation.pc = "returned"
  /\ evaluation.failures >= 1
  /\ Len(evaluation.logs) = 2
  /\ evaluation.logs[1].action = "store"
  /\ evaluation.logs[2].action = "forget"

\* ------------------------------------------------------------------ C19
\* C19: the entry logged for a tool call records the operation performed:
\* store_memory: action store, the id MemoryOps.store returned, the stored
\* text; forget_memory: action forget, the requested id, empty text;
\* update_memory: action update, the new id MemoryOps.update returned, the new
\* text; and deltaIndex is the length of the journal's cleanContext at the
\* moment the decision is carried out (the tool call is taken up).
C19_LogRecordsTheOperation ==
  [][/\ \A p \in evaluation'.pending \ evaluation.pending :
          p.deltaIndex = Len(evaluation.journal.cleanContext)
     /\ \A p \in evaluation.pending \ evaluation'.pending :
          evaluation'.successes = evaluation.successes + 1 =>
            LET entry == evaluation'.logs[Len(evaluation'.logs)]
                args == p.call.args
            IN /\ Len(evaluation'.logs) = Len(evaluation.logs) + 1
               /\ entry.deltaIndex = p.deltaIndex
               /\ p.call.name = "store_memory" =>
                    /\ entry.action = "store"
                    /\ entry.memoryId = newMemoryId
                    /\ entry.text = args.text
               /\ p.call.name = "forget_memory" =>
                    /\ entry.action = "forget"
                    /\ entry.memoryId = args.memoryId
                    /\ entry.text = ""
               /\ p.call.name = "update_memory" =>
                    /\ entry.action = "update"
                    /\ entry.memoryId = newMemoryId
                    /\ entry.text = args.text]_vars

\* evaluate has returned a store, a forget and an update entry, the journal
\* having grown between two of them.
C19_Witness ==
  /\ evaluation.pc = "returned"
  /\ \E i, j, k \in DOMAIN evaluation.logs :
       /\ evaluation.logs[i].action = "store"
       /\ evaluation.logs[j].action = "forget"
       /\ evaluation.logs[k].action = "update"
       /\ evaluation.logs[k].memoryId # evaluation.logs[j].memoryId
       /\ evaluation.logs[i].deltaIndex # evaluation.logs[k].deltaIndex

\* ------------------------------------------------------------------ C20
\* C20: a failure of complete() in any round propagates out of evaluate as an
\* error, and nothing else does: evaluate has thrown exactly when a
\* complete() call has rejected, however many tool calls (MemoryOps calls
\* among them) have failed.
C20_OnlyCompleteFailurePropagates ==
  /\ evaluation.completeFailed <=> evaluation.pc = "thrown"
  /\ evaluation.pc = "thrown" => evaluation.pending = {}

\* complete() has failed in a later round, after a round in which a MemoryOps
\* call rejected without ending evaluate.
C20_Witness ==
  /\ evaluation.pc = "thrown"
  /\ evaluation.completes >= 2
  /\ evaluation.opsCalls >= 1
  /\ evaluation.successes = 0
  /\ evaluation.failures >= 1


\* ------------------------------------------------------------------- C21
\* C21: the agent_end handler never raises to the host: an error from
\* appendMessages, evaluate or commitDecisions ends the capture with a logged
\* warning; the step in which evaluate fails changes no journal, file or queue,
\* and from then on no commitDecisions call of that event is ever queued.
C21_CaptureNeverRaises ==
  /\ [](\A e \in Events :
          /\ ~handlers[e].raised
          /\ handlers[e].failed # "none" =>
               handlers[e].warned /\ handlers[e].pc = "done")
  /\ [][\A e \in Events :
          handlers'[e].failed = "evaluate" =>
            /\ handlers[e].failed # "evaluate" =>
                 UNCHANGED <<cache, files, ops, issued>>
            /\ \A k \in SessionKeys : \A i \in DOMAIN ops'[k] :
                 ~(ops'[k][i].ev = e /\ ops'[k][i].kind = "commit")]_vars

\* evaluate threw for an event whose messages are in the journal: the warning
\* is logged and the session's processedIndex is still 0.
C21_Witness ==
  \E e \in Events :
    /\ handlers[e].failed = "evaluate"
    /\ handlers[e].warned
    /\ handlers[e].key # <<>>
    /\ cache[handlers[e].key] # <<>>
    /\ Len(cache[handlers[e].key][1].cleanContext) > 0
    /\ cache[handlers[e].key][1].processedIndex = 0
    /\ cache[handlers[e].key][1].memoryLogs = <<>>

\* ------------------------------------------------------------------- C22
\* The number of entries of the given type among a reply's blocks.
countOf(blocks, type) ==
  Cardinality({i \in 1..Len(blocks) : blocks[i] = type})

\* The backend's turn-completion signal says no tool-driven action follows.
turnComplete(api, reply) ==
  IF api = "openai-completions" THEN reply.signal = "stop"
  ELSE reply.signal # "tool_use"

\* C22: for both adapters, once complete() has returned, its toolCalls are the
\* function calls (OpenAI) or tool_use blocks (Anthropic) of the reply, and
\* done is true exactly when there is none of them or the backend's signal
\* says the turn is complete (finish_reason "stop"; stop_reason other than
\* "tool_use").
C22_DoneFlag ==
  (adapter.pc = "ready" /\ adapter.completes > 0) =>
    /\ Len(adapter.response.toolCalls) =
         countOf(adapter.reply.blocks,
                 IF adapter.api = "openai-completions" THEN "function"
                 ELSE "tool_use")
    /\ adapter.response.done <=>
         (Len(adapter.response.toolCalls) = 0 \/ turnComplete(adapter.api, adapter.reply))

\* An OpenAI reply that carries a function call and was cut off at the token
\* limit: complete() returned done = false.
C22_Witness ==
  /\ adapter.pc = "ready"
  /\ adapter.api = "openai-completions"
  /\ adapter.reply.signal = "length"
  /\ Len(adapter.response.toolCalls) = 1
  /\ ~adapter.response.done

\* ------------------------------------------------------------------- C23
\* C23: errors of the three memory tools come back as structured responses:
\* whatever the parameters, execute resolves and never rejects.
C23_ToolsNeverReject == tool.pc # "rejected"

\* ------------------------------------------------------------------- C24
\* Reading a property of a returned object (undefined: "absent").
field(rec, name) == IF name \in DOMAIN rec THEN rec[name] ELSE "absent"

\* The message of a thrown Error contains the text.
contains(message, text) == \E i \in 1..Len(message) : message[i] = text

\* A string that trimming and ${...} expansion leave as it is.
plain(v) == v # "absent" /\ resolveEnvVars(trim(v)) = v

\* parse was called on a value whose embedding section is valid.
parsedWithChat ==
  /\ config.pc # "idle"
  /\ config.value.chat # <<>>
  /\ ~resolveEmbeddingConfig(config.value.embedding).threw

\* C24: parse resolves the chat backend selector: without an api field the
\* chat config has api "openai-completions", model "gpt-4o-mini" and baseUrl
\* "https://api.openai.com/v1" unless given; with api "anthropic-messages"
\* and no model or baseUrl it has model "claude-sonnet-4-5-20250929" and
\* baseUrl "https://api.anthropic.com"; an apiKey, model or baseUrl that is
\* given is returned unchanged.
C24_ChatBackendResolved ==
  (parsedWithChat /\ plain(config.value.chat[1].apiKey)) =>
    LET given == config.value.chat[1]
        r == config.result
        chat == IF r.threw \/ r.chat = <<>> THEN noChat ELSE r.chat[1]
    IN /\ given.api = "absent" =>
            /\ ~r.threw
            /\ field(chat, "api") = "openai-completions"
            /\ given.model = "absent" => chat.model = "gpt-4o-mini"
            /\ given.baseUrl = "absent" => chat.baseUrl = "https://api.openai.com/v1"
       /\ (given.api = "anthropic-messages" /\ given.model = "absent"
           /\ given.baseUrl = "absent") =>
            /\ ~r.threw
            /\ field(chat, "api") = "anthropic-messages"
            /\ chat.model = "claude-sonnet-4-5-20250929"
            /\ chat.baseUrl = "https://api.anthropic.com"
       /\ given.api \in {"absent", "openai-completions", "anthropic-messages"} =>
            /\ ~r.threw
            /\ chat.apiKey = given.apiKey
            /\ plain(given.model) => chat.model = given.model
            /\ plain(given.baseUrl) => chat.baseUrl = given.baseUrl

\* ------------------------------------------------------------------- C25
\* C25: parse rejects a chat section whose api is not a supported backend
\* name with an Error whose message contains 'chat.api must be one of'.
C25_InvalidChatApiRejected ==
  (parsedWithChat /\
   config.value.chat[1].api \notin {"absent", "openai-completions",
                                    "anthropic-messages"}) =>
    /\ config.result.threw
    /\ contains(config.result.message, "chat.api must be one of")

\* ------------------------------------------------------------------- C26
\* parse was called on a value whose chat section (if any) and embedding
\* apiKey are valid, so the outcome is decided by model and dimensions.
parsedDimensions ==
  /\ config.pc # "idle"
  /\ config.value.chat = <<>>
  /\ plain(config.value.embedding.apiKey)

embeddingModel ==
  IF config.value.embedding.model = "absent" THEN "text-embedding-3-small"
  ELSE config.value.embedding.model

knownModel == embeddingModel \in DOMAIN EMBEDDING_DIMENSIONS

\* The dimensions given are a positive finite number.
positiveNumber(d) == d.type = "number" /\ d.finite /\ d.twice > 0

\* The original statement: an unknown model gets the provided dimensions, and
\* provided dimensions that differ from a known model's size are rejected.
C26_DimensionsAsProvided ==
  parsedDimensions =>
    LET d == config.value.embedding.dimensions
        r == config.result
    IN /\ (knownModel /\ d.type = "undefined") =>
            ~r.threw /\ r.embedding.dimensions = EMBEDDING_DIMENSIONS[embeddingModel]
       /\ (~knownModel /\ positiveNumber(d)) =>
            ~r.threw /\ 2 * r.embedding.dimensions = d.twice
       /\ (~knownModel /\ d.type = "undefined") =>
            r.threw /\ contains(r.message, "embedding.dimensions is required")
       /\ (knownModel /\ positiveNumber(d)
           /\ d.twice # 2 * EMBEDDING_DIMENSIONS[embeddingModel]) => r.threw
       /\ (d.type # "undefined" /\ ~positiveNumber(d)) => r.threw

\* C26: embedding dimensions are resolved as: for a known model with no
\* dimensions given, the model's known size; for an unknown model, the
\* provided dimensions rounded down to a whole number; parse throws
\* 'embedding.dimensions is required' when the model is unknown and no
\* dimensions are given or they round down to 0, throws when the provided
\* dimensions rounded down differ from a known model's size, and throws when
\* they are not a positive finite number.
C26_DimensionsRoundedDown ==
  parsedDimensions =>
    LET d == config.value.embedding.dimensions
        floor == d.twice \div 2
        r == config.result
    IN /\ (knownModel /\ d.type = "undefined") =>
            ~r.threw /\ r.embedding.dimensions = EMBEDDING_DIMENSIONS[embeddingModel]
       /\ (~knownModel /\ positiveNumber(d) /\ floor > 0) =>
            ~r.threw /\ r.embedding.dimensions = floor
       /\ (~knownModel /\ (d.type = "undefined" \/ (positiveNumber(d) /\ floor = 0))) =>
            r.threw /\ contains(r.message, "embedding.dimensions is required")
       /\ (knownModel /\ positiveNumber(d)) =>
            IF floor = EMBEDDING_DIMENSIONS[embeddingModel]
            THEN ~r.threw /\ r.embedding.dimensions = floor
            ELSE r.threw /\ contains(r.message, ") does not match expected (")
       /\ (d.type # "undefined" /\ ~positiveNumber(d)) =>
            r.threw /\ contains(r.message, "embedding.dimensions must be a positive number")

\* An unknown model given 1024.5 dimensions: parse returned 1024.
C26_Witness ==
  /\ parsedDimensions
  /\ ~knownModel
  /\ config.value.embedding.dimensions = numberOf(2049)
  /\ ~config.result.threw
  /\ config.result.embedding.dimensions = 1024

\* ------------------------------------------------------------------- C27
\* C27: validation comes before execution: taking up a store_memory or
\* update_memory call without text, a forget_memory or update_memory call
\* without memoryId, or a call of an unknown tool makes no MemoryOps call, and
\* no such call is ever among the MemoryOps calls in flight.
C27_ValidationPrecedesExecution ==
  /\ [][(/\ evaluation.pc = "tools"
         /\ evaluation.tc <= Len(evaluation.response.toolCalls)
         /\ evaluation'.tc # evaluation.tc
         /\ IF evaluation.tc <= Len(evaluation.response.toolCalls)
            THEN invalidCall(evaluation.response.toolCalls[evaluation.tc])
            ELSE FALSE)
        => /\ evaluation'.opsCalls = evaluation.opsCalls
           /\ evaluation'.pending = evaluation.pending]_vars
  /\ [](\A p \in evaluation.pending : ~invalidCall(p.call))

\* evaluate has returned after two or more tool calls, all of them refused:
\* no MemoryOps method was called.
C27_Witness ==
  /\ evaluation.pc = "returned"
  /\ evaluation.requested >= 2
  /\ evaluation.failures = evaluation.requested
  /\ evaluation.opsCalls = 0

\* ------------------------------------------------------------------- C28
\* The original statement: every log entry's deltaIndex is the length of the
\* delta evaluate was handed.
C28_DeltaIndexIsDeltaLength ==
  \A i \in 1..Len(evaluation.logs) :
    evaluation.logs[i].deltaIndex = Len(evaluation.delta)

\* C28: on a successful tool call the appended entry's deltaIndex is the
\* length cleanContext had when the tool call was taken up: a MemoryOps call
\* starts with the journal's current cleanContext length, and the entry logged
\* when it resolves carries that number; so no deltaIndex is below the
\* length of the cleanContext evaluate was handed or above its current length.
C28_DeltaIndexIsContextLength ==
  /\ [][/\ \A p \in evaluation'.pending \ evaluation.pending :
             p.deltaIndex = Len(evaluation.journal.cleanContext)
        /\ Len(evaluation'.logs) > Len(evaluation.logs) =>
             \E p \in evaluation.pending \ evaluation'.pending :
               /\ evaluation'.logs =
                    Append(evaluation.logs, evaluation'.logs[Len(evaluation'.logs)])
               /\ evaluation'.logs[Len(evaluation'.logs)].deltaIndex = p.deltaIndex]_vars
  /\ [](\A i \in 1..Len(evaluation.logs) :
          /\ evaluation.logs[i].deltaIndex <= Len(evaluation.journal.cleanContext)
          /\ evaluation.logs[i].deltaIndex >=
               Len(evaluation.journal.cleanContext) - evaluation.grown)

\* A journal with processedIndex 1 and a delta of one message: the entry
\* logged has deltaIndex 2, the length of cleanContext.
C28_Witness ==
  /\ evaluation.pc = "returned"
  /\ evaluation.journal.processedIndex = 1
  /\ Len(evaluation.delta) = 1
  /\ Len(evaluation.logs) = 1
  /\ evaluation.logs[1].deltaIndex = 2
  /\ Len(evaluation.journal.cleanContext) = 2

\* ------------------------------------------------------------------- C29
\* The original statement: an entry carries the time at which it is appended.
C29_TimestampIsTimeOfAppend ==
  [][Len(evaluation'.logs) > Len(evaluation.logs) =>
       evaluation'.logs[Len(evaluation'.logs)].timestamp = evaluation.clock]_vars

\* C29: each MemoryLogEntry's timestamp is the wall-clock time read once when
\* evaluate starts: `now` is the clock at the call, it never changes while
\* evaluate runs, and every entry of the call carries it, in whatever round
\* and at whatever time the entry is appended.
C29_TimestampIsTimeOfCall ==
  /\ [][/\ (evaluation.pc = "idle" /\ evaluation'.pc = "round") =>
             evaluation'.now = evaluation.clock
        /\ evaluation.pc # "idle" => evaluation'.now = evaluation.now]_vars
  /\ [](\A i \in 1..Len(evaluation.logs) :
          evaluation.logs[i].timestamp = evaluation.now)

\* Two stores of different rounds, the clock having advanced twice since
\* evaluate was called: both entries carry the time of the call.
C29_Witness ==
  /\ evaluation.pc = "returned"
  /\ evaluation.completes >= 2
  /\ Len(evaluation.logs) = 2
  /\ evaluation.logs[1].action = "store"
  /\ evaluation.logs[2].action = "store"
  /\ evaluation.clock = evaluation.now + 2
  /\ evaluation.logs[1].timestamp = evaluation.now
  /\ evaluation.logs[2].timestamp = evaluation.now

\* ------------------------------------------------------------------- C30
\* The steps of the adapter: complete() returns, pushToolResult is called,
\* a request is sent.
completeReturned == adapter.pc = "awaiting" /\ adapter'.pc = "ready"
resultPushed == adapter.pc = "ready" /\ adapter'.pc = "ready" /\ adapter'.tc # adapter.tc
requestSent == adapter.pc = "ready" /\ adapter'.pc = "awaiting"

\* Nothing is removed or reordered, a pushToolResult appends one result
\* entry, and a request carries the whole transcript as it is then.
transcriptGrows ==
  /\ isPrefix(adapter.messages, adapter'.messages)
  /\ resultPushed =>
       /\ Len(adapter'.messages) = Len(adapter.messages) + 1
       /\ adapter'.messages[Len(adapter'.messages)].kind = "result"
       /\ adapter'.messages[Len(adapter'.messages)].ids =
            <<adapter.response.toolCalls[adapter.tc].id>>
  /\ requestSent => adapter'.requests = Append(adapter.requests, adapter.messages)
  /\ ~requestSent => adapter'.requests = adapter.requests

\* The original statement: every complete() call appends the reply.
C30_EveryCompleteAppends ==
  [][/\ transcriptGrows
     /\ completeReturned =>
          /\ Len(adapter'.messages) = Len(adapter.messages) + 1
          /\ adapter'.messages[Len(adapter'.messages)].kind = "reply"]_vars

\* C30: the adapter transcript is append-only: every complete() call whose
\* reply carries a message appends it (an OpenAI response without choices
\* appends nothing), every pushToolResult appends one tool-result entry,
\* nothing is removed or reordered, and each request carries the transcript of
\* that moment, so all earlier replies and tool results in order.
C30_TranscriptAppendOnly ==
  /\ [][/\ transcriptGrows
        /\ completeReturned =>
             IF adapter.api = "openai-completions" /\ adapter'.reply.choices = 0
             THEN adapter'.messages = adapter.messages
             ELSE /\ Len(adapter'.messages) = Len(adapter.messages) + 1
                  /\ adapter'.messages[Len(adapter'.messages)].kind = "reply"
                  /\ Len(adapter'.messages[Len(adapter'.messages)].ids) =
                       Len(adapter'.reply.blocks)]_vars
  /\ [](\A r \in 1..Len(adapter.requests) :
          /\ isPrefix(adapter.requests[r], adapter.messages)
          /\ r > 1 => isPrefix(adapter.requests[r - 1], adapter.requests[r]))

\* The second request carried the first reply and the result of its tool
\* call behind the first request's messages, and the second reply is appended.
C30_Witness ==
  /\ adapter.pc = "ready"
  /\ Len(adapter.requests) = 2
  /\ Len(adapter.requests[2]) = Len(adapter.requests[1]) + 2
  /\ adapter.requests[2][Len(adapter.requests[2]) - 1].kind = "reply"
  /\ adapter.requests[2][Len(adapter.requests[2])].kind = "result"
  /\ Len(adapter.messages) = Len(adapter.requests[2]) + 1
  /\ adapter.messages[Len(adapter.messages)].kind = "reply"


\* ---------------------------------------------------------------- C31
\* C31: for every session key the persisted file is named after the key with
\* each character outside [a-zA-Z0-9_-] replaced by "_", plus ".json", and
\* its path is a direct child of the sessions directory: nothing in the key
\* makes the path leave that directory.
sanitized(sessionKey) ==
  [i \in 1..Len(sessionKey) |->
     IF sessionKey[i] \in SafeChars THEN sessionKey[i] ELSE "_"]

C31_JournalFileInSessionsDir ==
  path.pc = "resolved" =>
    /\ Len(path.file) = Len(sessionsDir) + 1
    /\ dirname(path.file) = sessionsDir
    /\ path.file[Len(path.file)] = sanitized(path.key) \o <<".","j","s","o","n">>

\* A key made to climb out of the directory ("../a") names a file inside it.
C31_Witness ==
  /\ path.pc = "resolved"
  /\ path.key = <<".", ".", "/">>
  /\ path.file = Append(sessionsDir, <<"_","_","_",".","j","s","o","n">>)


\* ---------------------------------------------------------------- C32
\* C32: MemoryOps.update runs while holding the session's queue lock: while
\* an update issued by the decision loop is in progress, no appendMessages or
\* commitDecisions operation of the same session executes.
updateInProgress(e) ==
  handlers[e].pc = "executing" /\ handlers[e].call = "update"

C32_UpdateHoldsQueueLock ==
  [][\A e \in Events :
       updateInProgress(e) =>
         \A i \in OpIds :
           /\ ~bodyStep(handlers[e].key, i, "append")
           /\ ~bodyStep(handlers[e].key, i, "commit")]_vars


\* ---------------------------------------------------------------- C33
\* C33: a message is counted as processed only after being evaluated: every
\* message at an index below processedIndex was contained in the delta of
\* some evaluate call that returned successfully, whatever the interleaving
\* of the agent_end events of the session.
inDelta(message, delta) == \E j \in DOMAIN delta : delta[j] = message

evaluatedBy(e, message) ==
  /\ handlers[e].trace.outcome = "returned"
  /\ inDelta(message, handlers[e].trace.seen)

C33_ProcessedOnlyAfterEvaluated ==
  \A k \in HostSessions :
    cache[k] # <<>> =>
      \A i \in 1..cache[k][1].processedIndex :
        i <= Len(cache[k][1].cleanContext) =>
          \E e \in Events : evaluatedBy(e, cache[k][1].cleanContext[i])


\* ---------------------------------------------------------------- C34
\* C34: every memory operation that succeeded against MemoryOps during a
\* capture attempt is recorded in the session's memoryLogs: when the handler
\* returns (by itself, not by the death of the process), the log entry of
\* every MemoryOps call that resolved is in the journal of its session.
recordedLogs(journals, disk, k) ==
  IF journals[k] # <<>> THEN journals[k][1].memoryLogs
  ELSE readJournal(disk[journalPath(k)]).memoryLogs

recorded(entry, journals, disk) ==
  \E k \in HostSessions :
    \E j \in DOMAIN recordedLogs(journals, disk, k) :
      recordedLogs(journals, disk, k)[j] = entry

handlerReturns(e) ==
  handlers[e].pc # "done" /\ handlers'[e].pc = "done" /\ ops' = ops

C34_SucceededOperationsAreLogged ==
  [][\A e \in Events :
       handlerReturns(e) =>
         \A n \in DOMAIN handlers'[e].trace.effects :
           recorded(handlers'[e].trace.effects[n], cache', files')]_vars


\* ---------------------------------------------------------------- C35
\* C35: when a journal operation settles, fulfilled or rejected, the cached
\* JournalData of its session equals the content of the persisted file (the
\* empty journal when there is no file): a save that fails while writing or
\* renaming leaves the cached state as it was.
settles(k, i) ==
  /\ hasOp(k, i)
  /\ ops[k][i].st \notin Settled
  /\ i \in DOMAIN ops'[k]
  /\ ops'[k][i].id = ops[k][i].id
  /\ ops'[k][i].st \in Settled

C35_CacheEqualsFileWhenSettled ==
  [][\A k \in SessionKeys : \A i \in OpIds :
       settles(k, i) =>
         /\ cache'[k] # <<>>
         /\ cache'[k][1] = readJournal(files'[journalPath(k)])]_vars


\* ---------------------------------------------------------------- C36
\* C36: each cleanContext message is evaluated at most once: no message is in
\* the delta of two different evaluate calls that both reached the backend,
\* whatever the interleaving of the agent_end events of the session.
C36_EvaluatedAtMostOnce ==
  \A e1, e2 \in Events :
    e1 # e2 =>
      \A j \in DOMAIN handlers[e1].trace.seen :
        ~inDelta(handlers[e1].trace.seen[j], handlers[e2].trace.seen)


\* ---------------------------------------------------------------- C37
\* C37: a failed update_memory leaves the memory store unchanged: when
\* MemoryOps.update throws at any step (delete, embedding, insert), the
\* memory identified by memoryId is still present afterwards.
updateThrew == memory.pc = "rejected" /\ memory.method = "update"

C37_FailedUpdateKeepsMemory ==
  updateThrew =>
    \A row \in memoryTable :
      row.id = memory.passed.memoryId => row \in memory.table

\* ---------------------------------------------------------------- C39
\* C39: MemoryOps.store and MemoryOps.update are only ever invoked with a
\* category that is one of the five declared values, whatever arguments the
\* model supplies.
C39_CategoryIsDeclared ==
  memory.method \in {"store", "update"} =>
    memory.passed.category \in MEMORY_CATEGORIES


\* ---------------------------------------------------------------- C38
\* C38: whenever complete() is called, every tool call id contained in an
\* assistant reply already in the transcript has exactly one tool-result
\* entry with that id in the transcript, pushed after that reply; this
\* includes the tool calls the adapter does not return to the loop (OpenAI
\* tool calls of a type other than "function").
isToolCallBlock(api, block) ==
  IF api = "openai-completions" THEN TRUE ELSE block.type = "tool_use"

\* The transcript positions of the assistant replies, in order.
replyPositions(messages) ==
  SelectSeq([t \in 1..Len(messages) |-> t], LAMBDA t : messages[t].kind = "reply")

resultPositions(messages, id) ==
  {t \in 1..Len(messages) :
     messages[t].kind = "result" /\ messages[t].ids = <<id>>}

answered(messages, replyIndex, id) ==
  /\ Cardinality(resultPositions(messages, id)) = 1
  /\ \A t \in resultPositions(messages, id) :
       t > replyPositions(messages)[replyIndex]

\* The original statement: every tool call of every reply, returned to the
\* loop or not.
C38_EveryToolCallAnswered ==
  [][requestSent =>
       \A r \in 1..Len(adapter.replies) :
         \A b \in 1..Len(adapter.replies[r]) :
           isToolCallBlock(adapter.api, adapter.replies[r][b]) =>
             answered(adapter.messages, r, adapter.replies[r][b].id)]_vars

\* The tool calls complete() returns to the loop.
isReturnedBlock(api, block) ==
  block.type = (IF api = "openai-completions" THEN "function" ELSE "tool_use")

\* C38: whenever complete() is called, every tool call id that an earlier
\* complete() returned to the loop has exactly one tool-result entry in the
\* transcript, pushed after the reply that carried it.
C38_ReturnedToolCallsAnswered ==
  [][requestSent =>
       \A r \in 1..Len(adapter.replies) :
         \A b \in 1..Len(adapter.replies[r]) :
           isReturnedBlock(adapter.api, adapter.replies[r][b]) =>
             answered(adapter.messages, r, adapter.replies[r][b].id)]_vars

\* A second request is sent after an OpenAI reply with a custom and a
\* function tool call: the function call has its result, the custom one none.
C38_Witness ==
  /\ adapter.api = "openai-completions"
  /\ adapter.pc = "awaiting"
  /\ adapter.completes = 2
  /\ Len(adapter.replies) = 1
  /\ adapter.replies[1] = <<[type |-> "custom", id |-> 1],
                            [type |-> "function", id |-> 2]>>
  /\ resultPositions(adapter.messages, 2) = {4}
  /\ resultPositions(adapter.messages, 1) = {}


\* ---------------------------------------------------------------- C40
\* C40: the journal passed to evaluate behaves as a snapshot: its
\* cleanContext, memoryLogs and processedIndex do not change between the
\* start and the end of the evaluate call, so all log entries returned by one
\* evaluate call carry the same deltaIndex, the length of cleanContext when
\* evaluate was invoked.
evaluateRunning == evaluation.pc \notin {"idle", "returned", "thrown"}

lengthAtInvocation == Len(evaluation.journal.cleanContext) - evaluation.grown

C40_JournalIsSnapshot ==
  /\ [][evaluateRunning => evaluation'.journal = evaluation.journal]_vars
  /\ [](\A n \in DOMAIN evaluation.logs :
          evaluation.logs[n].deltaIndex = lengthAtInvocation)

====
